---- MODULE Spec2Model ----
(***************************************************************************)
(* A model of salt/fileclient.py (salt 0.16): the Client base class and    *)
(* RemoteClient.get_file.  Strings and paths are sequences of one-character*)
(* strings, file contents are sequences of small integers (bytes), and the *)
(* filesystem is a set of directories plus a function from file paths to   *)
(* their on-disk content.                                                  *)
(***************************************************************************)
EXTENDS Naturals, Integers, Sequences, FiniteSets, Bags, TLC

VARIABLES
    pc,         \* position of the current call: "idle", "loop", "done", "proto"
    op,         \* public operation that was called
    path,       \* argument path of the call
    destArg,    \* argument dest of the call
    makedirs,   \* argument makedirs
    gzip,       \* argument gzip (TRUE when the caller asked for compression)
    dest,       \* local variable dest of get_file
    fn_,        \* local variable fn_ of get_file: NoHandle or an open handle
    d_tries,    \* local variable d_tries of get_file
    result,     \* what the call returned or raised
    dirs,       \* filesystem: the directories that exist
    files,      \* filesystem: file path -> bytes on disk
    umask,      \* process umask
    nopen,      \* handles on the destination opened by the call and not closed
    nreq,       \* requests sent by the call so far
    lastLoc,    \* load['loc'] of the last request sent (-1: none)
    retrying,   \* the last reply ended in "continue" after a digest mismatch
    recv,       \* concatenation of the decoded data chunks received
    nempty,     \* empty-data replies received by the call
    mism,       \* digest mismatches found by the call
    zeroByte,   \* the call took the "0 byte file on the master" branch
    timedOut,   \* a request of the call timed out
    probed,     \* is_cached was called
    probePath,  \* its path argument
    probeRet,   \* its return value
    opts,       \* minion configuration: file_roots and hash_type
    sess,       \* the _cache_loc blocks of the fetch sessions
    gd          \* locals of the get_dir or cache_dir call under way

\* the state of LocalClient, of _cache_loc sessions and of directory fetches
ext == <<opts, sess, gd>>

vars == <<pc, op, path, destArg, makedirs, gzip, dest, fn_, d_tries, result,
          dirs, files, umask, nopen, nreq, lastLoc, retrying, recv, nempty,
          mism, zeroByte, timedOut, probed, probePath, probeRet, opts, sess,
          gd>>

(***************************************************************************)
(* Bounds of the model.                                                    *)
(***************************************************************************)
MaxLen == 2          \* most bytes one call writes to its destination
MaxChunk == 1        \* most bytes in one reply
MaxSuffix == 2       \* longest tail of a path handed to _check_proto
MaxName == 3         \* longest name in a file listing
MaxUses == 2         \* most _cache_loc blocks one fetch session enters
MaxCalls == 2        \* most get_url calls one minion process makes

Bytes == {1, 2}

(***************************************************************************)
(* Python string helpers.                                                  *)
(***************************************************************************)
StartsWith(s, p) == Len(s) >= Len(p) /\ SubSeq(s, 1, Len(p)) = p

EndsWith(s, p) ==
    Len(s) >= Len(p) /\ SubSeq(s, Len(s) - Len(p) + 1, Len(s)) = p

\* s.lstrip(chars): drop every leading character that is in the set chars
LStrip(s, chars) ==
    LET keep == {i \in 1..Len(s) : s[i] \notin chars}
    IN  IF keep = {} THEN <<>>
        ELSE LET first == CHOOSE i \in keep : \A j \in keep : i <= j
             IN  SubSeq(s, first, Len(s))

\* s.rstrip('/')
RStripSlash(s) ==
    LET keep == {i \in 1..Len(s) : s[i] # "/"}
    IN  IF keep = {} THEN <<>>
        ELSE LET last == CHOOSE i \in keep : \A j \in keep : j <= i
             IN  SubSeq(s, 1, last)

\* s.strip(): whitespace dropped at both ends
Whitespace == {" "}
Strip(s) ==
    LET keep == {i \in 1..Len(s) : s[i] \notin Whitespace}
    IN  IF keep = {} THEN <<>>
        ELSE SubSeq(s, CHOOSE i \in keep : \A j \in keep : i <= j,
                       CHOOSE i \in keep : \A j \in keep : j <= i)

SeqsUpTo(S, n) == UNION {[1..k -> S] : k \in 0..n}

(***************************************************************************)
(* Client._check_proto                                                     *)
(***************************************************************************)
SaltScheme == <<"s", "a", "l", "t", ":", "/", "/">>
SchemeLen == 7

\* path[7:] under the other reading of "trim": every leading scheme character
CheckProtoLStrip(p) ==
    IF StartsWith(p, SaltScheme)
    THEN [ok |-> TRUE, val |-> LStrip(p, {"s", "a", "l", "t", ":", "/"})]
    ELSE [ok |-> FALSE, val |-> <<>>]

\* ok = FALSE stands for "raise MinionError"
CheckProto(p) ==
    IF StartsWith(p, SaltScheme)
    THEN [ok |-> TRUE, val |-> SubSeq(p, SchemeLen + 1, Len(p))]
    ELSE [ok |-> FALSE, val |-> <<>>]

(***************************************************************************)
(* posixpath and the filesystem.                                           *)
(***************************************************************************)
Slash == <<"/">>

\* os.path.join(a, b)
PathJoin(a, b) ==
    IF StartsWith(b, Slash) THEN b
    ELSE IF a = <<>> \/ EndsWith(a, Slash) THEN a \o b
    ELSE a \o Slash \o b

\* os.path.dirname(p)
Dirname(p) ==
    LET sl == {i \in 1..Len(p) : p[i] = "/"}
    IN  IF sl = {} THEN <<>>
        ELSE LET i == CHOOSE k \in sl : \A j \in sl : j <= k
                 head == SubSeq(p, 1, i)
             IN  IF RStripSlash(head) = <<>> THEN head ELSE RStripSlash(head)

\* the name the kernel resolves p to: trailing slashes dropped
Norm(p) == IF p # <<>> /\ RStripSlash(p) = <<>> THEN Slash ELSE RStripSlash(p)

IsDirIn(ds, p) == p # <<>> /\ Norm(p) \in ds
IsFileIn(fs, p) == p \in DOMAIN fs
IsDir(p) == IsDirIn(dirs, p)
IsFile(p) == IsFileIn(files, p)
Exists(p) == IsDir(p) \/ IsFile(p)

\* p and the directories above it (p absolute)
PrefixDirs(p) ==
    {SubSeq(p, 1, i - 1) : i \in {k \in 2..Len(p) : p[k] = "/"}} \cup {Norm(p)}

IsUnder(q, p) == q = Norm(p) \/ StartsWith(q, Norm(p) \o Slash)

Without(fs, gone) == [q \in (DOMAIN fs) \ gone |-> fs[q]]
WithFile(fs, p, bytes) ==
    [q \in (DOMAIN fs) \cup {p} |-> IF q = p THEN bytes ELSE fs[q]]

\* os.makedirs(p) succeeds: p is new and no directory above it is a file
MakeDirsOk(ds, fs, p) ==
    /\ ~IsDirIn(ds, p)
    /\ \A q \in PrefixDirs(p) : ~IsFileIn(fs, q)
MakeDirs(ds, p) == ds \cup PrefixDirs(p)

\* open(p, 'wb+') succeeds: the parent is a directory and p is not one
CanOpenWrite(ds, fs, p) ==
    /\ p # <<>>
    /\ ~EndsWith(p, Slash)
    /\ IsDirIn(ds, Dirname(p))
    /\ ~IsDirIn(ds, p)

\* the file is opened for appending: what it held is kept
OpenAppend(fs, p) == IF p \in DOMAIN fs THEN fs ELSE WithFile(fs, p, <<>>)

\* open(p, 'wb+'): the file is created, or truncated to no bytes
OpenWrite(fs, p) == WithFile(fs, p, <<>>)

\* salt.utils.rm_rf(p): p and everything below it is gone
RmRfDirs(ds, p) == {q \in ds : ~IsUnder(q, p)}
RmRfFiles(fs, p) == Without(fs, {q \in DOMAIN fs : IsUnder(q, p)})

(***************************************************************************)
(* Configuration: opts['cachedir'] and the environment of the calls.       *)
(***************************************************************************)
CacheDir == <<"/", "c">>
FilesSeg == <<"f", "i", "l", "e", "s">>
LocalFilesSeg == <<"l", "o", "c", "a", "l", "f", "i", "l", "e", "s">>
Env == <<"b", "a", "s", "e">>
FilesRoot == PathJoin(CacheDir, FilesSeg)
EnvRoot == PathJoin(FilesRoot, Env)

UmaskDefault == 18     \* 022, the umask of the minion process
UmaskCache == 63       \* 077, set by _cache_loc

(***************************************************************************)
(* Client._cache_loc up to its yield: the destination, and the filesystem  *)
(* after the parent directory was made.  ok = FALSE: os.makedirs raised.   *)
(***************************************************************************)
CacheLocDest(p, env) ==
    PathJoin(PathJoin(PathJoin(CacheDir, FilesSeg), env), p)

CacheLoc(ds, fs, p, env) ==
    LET cdest == CacheLocDest(p, env)
        destdir == Dirname(cdest)
        fs1 == IF IsFileIn(fs, destdir) THEN Without(fs, {destdir}) ELSE fs
    IN  IF IsDirIn(ds, destdir)
        THEN [ok |-> TRUE, dirs |-> ds, files |-> fs, dest |-> cdest]
        ELSE IF MakeDirsOk(ds, fs1, destdir)
        THEN [ok |-> TRUE, dirs |-> MakeDirs(ds, destdir), files |-> fs1,
              dest |-> cdest]
        ELSE [ok |-> FALSE, dirs |-> ds, files |-> fs1, dest |-> cdest]

(***************************************************************************)
(* Stream compression and digests.                                         *)
(***************************************************************************)
\* gzip_util.compress: a header byte 0, then the payload recoded
Compress(s) == <<0>> \o [i \in 1..Len(s) |-> s[i] + 10]

\* gzip_util.uncompress: ok = FALSE stands for "raise IOError" (no header)
Uncompress(w) ==
    IF w # <<>> /\ w[1] = 0
    THEN [ok |-> TRUE, val |-> [i \in 1..(Len(w) - 1) |-> w[i + 1] - 10]]
    ELSE [ok |-> FALSE, val |-> <<>>]

\* the content read as a number, byte after byte: contents that differ in
\* a byte or in their length give different numbers
WeightedSum(s) ==
    LET w[i \in 0..Len(s)] ==
            IF i = 0 THEN 0 ELSE (s[Len(s) + 1 - i] + 1) + 16 * w[i - 1]
    IN  w[Len(s)]

\* getattr(hashlib, alg)(bytes).hexdigest(): one value for each algorithm
\* and content
Digest(alg, bytes) ==
    2 * WeightedSum(bytes) + (IF alg = "sha1" THEN 1 ELSE 0)

\* data.get('hash_type', 'md5')
HashTypeOf(r) == IF r.hash_type = "none" THEN "md5" ELSE r.hash_type

(***************************************************************************)
(* Results of a call and file handles.                                     *)
(***************************************************************************)
NoResult == [tag |-> "none", val |-> <<>>]
Ret(v) == [tag |-> "ret", val |-> v]
RetFalse == [tag |-> "False", val |-> <<>>]
Raise(e) == [tag |-> e, val |-> <<>>]

NoHandle == [open |-> FALSE, path |-> <<>>, buf |-> <<>>]
Handle(p) == [open |-> TRUE, path |-> p, buf |-> <<>>]

\* fn_.tell(): bytes on disk plus bytes still in the handle's buffer
Tell(fs, fn) == Len(fs[fn.path]) + Len(fn.buf)

\* the offset asked for is the size of the file on disk
LoadLocOnDisk(fs, fn) == IF ~fn.open THEN 0 ELSE Len(fs[fn.path])

\* load['loc'] of the next request
LoadLoc(fs, fn) == IF ~fn.open THEN 0 ELSE Tell(fs, fn)


(***************************************************************************)
(* RemoteClient.get_file, lines 599-617: argument checks and the explicit  *)
(* destination.  tag "loop": the request loop is entered.                  *)
(***************************************************************************)
DTriesLimit == 3

\* a missing directory is made whatever makedirs says
NeverGiveUp(mk) == FALSE

\* lines 612-616: with the directory missing, return False unless makedirs
GiveUpOnMissingDir(mk) == ~mk

Begin(p, d, mk) ==
    LET destdir == Dirname(d)
        ds1 == IF IsDir(destdir) THEN dirs ELSE MakeDirs(dirs, destdir)
    IN  IF ~CheckProto(p).ok
        THEN [tag |-> "MinionError", dirs |-> dirs, files |-> files,
              fn |-> NoHandle]
        ELSE IF d = <<>>
        THEN [tag |-> "loop", dirs |-> dirs, files |-> files, fn |-> NoHandle]
        ELSE IF ~IsDir(destdir) /\ GiveUpOnMissingDir(mk)
        THEN [tag |-> "False", dirs |-> dirs, files |-> files, fn |-> NoHandle]
        ELSE IF ~IsDir(destdir) /\ ~MakeDirsOk(dirs, files, destdir)
        THEN [tag |-> "OSError", dirs |-> dirs, files |-> files,
              fn |-> NoHandle]
        ELSE IF ~CanOpenWrite(ds1, files, d)
        THEN [tag |-> "IOError", dirs |-> ds1, files |-> files,
              fn |-> NoHandle]
        ELSE [tag |-> "loop", dirs |-> ds1, files |-> OpenWrite(files, d),
              fn |-> Handle(d)]

\* what entering a call makes of the variables of the request loop
EnterLocals(o, p, d, mk, gz) ==
    \E b \in {Begin(p, d, mk)} :
        /\ pc = "idle"
        /\ op' = o
        /\ path' = p
        /\ destArg' = d
        /\ makedirs' = mk
        /\ gzip' = gz
        /\ dest' = d
        /\ d_tries' = 0
        /\ dirs' = b.dirs
        /\ files' = b.files
        /\ fn_' = b.fn
        /\ nopen' = IF b.fn.open THEN 1 ELSE 0
        /\ pc' = IF b.tag = "loop" THEN "loop" ELSE "done"
        /\ result' = IF b.tag = "loop" THEN NoResult
                     ELSE IF b.tag = "False" THEN RetFalse
                     ELSE Raise(b.tag)
        /\ probed' = FALSE
        /\ probePath' = <<>>
        /\ probeRet' = <<>>
        /\ UNCHANGED <<umask, nreq, lastLoc, retrying, recv, nempty, mism,
                       zeroByte, timedOut>>

\* the state of a call that has just been entered
Enter(o, p, d, mk, gz) == EnterLocals(o, p, d, mk, gz) /\ UNCHANGED ext


(***************************************************************************)
(* The replies of the master.  A reply is what crypticle.loads returns:    *)
(* data (bytes on the wire), dest, hsum (-1: key absent), hash_type        *)
(* ("none": key absent) and gzip.                                          *)
(***************************************************************************)
Chunks == SeqsUpTo(Bytes, MaxChunk) \ {<<>>}
\* the digests a master sends, under either algorithm: of the file as it
\* was served, or of a file that has changed since (its last byte gone, or
\* a byte where there was none)
ServedFiles ==
    {recv, IF recv = <<>> THEN <<1>> ELSE SubSeq(recv, 1, Len(recv) - 1)}
Hsums ==
    {0 - 1} \cup {Digest(a, c) : a \in {"md5", "sha1"}, c \in ServedFiles}
HashTypes == {"none", "md5", "sha1"}

\* the relative path the master is asked for
Rel == CheckProto(path).val

\* lines 662-665: the bytes to write for a reply
Decode(r) ==
    IF r.gzip THEN Uncompress(r.data) ELSE [ok |-> TRUE, val |-> r.data]

\* a destination is looked for in every reply
NoHandleAlways(fn) == TRUE

\* lines 634 and 654: not fn_
NoHandleYet(fn) == ~fn.open

\* lines 654-661: the destination is opened on the first data reply
OpenForData(r) ==
    IF ~NoHandleYet(fn_)
    THEN [tag |-> "ok", dirs |-> dirs, files |-> files, dest |-> dest,
          fn |-> fn_, umask |-> umask, nopen |-> nopen]
    ELSE LET cl == CacheLoc(dirs, files, r.dest, Env)
             isd == IsDirIn(cl.dirs, cl.dest)
             ds2 == IF isd THEN RmRfDirs(cl.dirs, cl.dest) ELSE cl.dirs
             fs2 == IF isd THEN RmRfFiles(cl.files, cl.dest) ELSE cl.files
         IN  IF ~cl.ok
             THEN [tag |-> "OSError", dirs |-> cl.dirs, files |-> cl.files,
                   dest |-> dest, fn |-> NoHandle, umask |-> UmaskCache,
                   nopen |-> nopen]
             ELSE IF ~CanOpenWrite(ds2, fs2, cl.dest)
             THEN [tag |-> "IOError", dirs |-> ds2, files |-> fs2,
                   dest |-> cl.dest, fn |-> NoHandle, umask |-> UmaskCache,
                   nopen |-> nopen]
             ELSE [tag |-> "ok", dirs |-> ds2,
                   files |-> OpenWrite(fs2, cl.dest), dest |-> cl.dest,
                   fn |-> Handle(cl.dest), umask |-> umask,
                   nopen |-> nopen + 1]

\* lines 634-639: a 0 byte file on the master is created in the cache
ZeroByteFile(r) ==
    IF ~NoHandleYet(fn_) \/ r.dest = <<>>
    THEN [tag |-> "ok", dirs |-> dirs, files |-> files, dest |-> dest,
          umask |-> umask, zero |-> FALSE]
    ELSE LET cl == CacheLoc(dirs, files, r.dest, Env)
         IN  IF ~cl.ok
             THEN [tag |-> "OSError", dirs |-> cl.dirs, files |-> cl.files,
                   dest |-> dest, umask |-> UmaskCache, zero |-> TRUE]
             ELSE IF ~CanOpenWrite(cl.dirs, cl.files, cl.dest)
             THEN [tag |-> "IOError", dirs |-> cl.dirs, files |-> cl.files,
                   dest |-> cl.dest, umask |-> UmaskCache, zero |-> TRUE]
             ELSE [tag |-> "ok", dirs |-> cl.dirs,
                   files |-> WithFile(OpenWrite(cl.files, cl.dest), cl.dest,
                                      OpenWrite(cl.files, cl.dest)[cl.dest]
                                          \o r.data),
                   dest |-> cl.dest, umask |-> umask, zero |-> TRUE]

\* the bound on the tries is off by one
VerifyWantedOnceMore(r, tries) == r.hsum # 0 - 1 /\ tries <= DTriesLimit

\* line 640: the master has prompted a verification and tries are left
VerifyWanted(r, tries) == r.hsum # 0 - 1 /\ tries < DTriesLimit

\* lines 644-652: "IOError" (dest cannot be read), "continue" or "break"
Verify(r, fs, dst) ==
    IF ~IsFileIn(fs, dst) THEN "IOError"
    ELSE IF Digest(HashTypeOf(r), fs[dst]) # r.hsum THEN "continue"
    ELSE "break"

\* closing the handle loses what is in its buffer
CloseLosesBuffer(fs, fn) == fs

\* lines 667-668: fn_.close() writes the buffered bytes out
CloseFiles(fs, fn) ==
    IF fn.open THEN WithFile(fs, fn.path, fs[fn.path] \o fn.buf) ELSE fs


(***************************************************************************)
(* The calls and the steps of the request loop.                            *)
(***************************************************************************)
SaltX == SaltScheme \o <<"x">>
SaltAX == SaltScheme \o <<"a", "x">>
BareX == <<"x">>
Paths == {SaltX, SaltAX, BareX}

DestDir == <<"/", "d">>
DestFile == <<"/", "d", "/", "f">>
Dests == {<<>>, DestFile}

\* urlparse(url).scheme == 'salt'
IsSaltUrl(url) == StartsWith(url, <<"s", "a", "l", "t", ":">>)

\* RemoteClient.get_file(path, dest, makedirs, env, gzip)
GetFileCall ==
    \E p \in Paths, d \in Dests, mk \in BOOLEAN, gz \in BOOLEAN :
        Enter("get_file", p, d, mk, gz)

\* Client.cache_file(path, env): get_url(path, '', True, env), which hands
\* a salt:// url to get_file(url, dest, makedirs, env)
CacheFileCall ==
    \E p \in {q \in Paths : IsSaltUrl(q)} :
        Enter("cache_file", p, <<>>, TRUE, FALSE)

\* the timeout is reported like a missing destination directory
TimeoutReturnsFalse == RetFalse

\* line 631: what get_file returns when a request times out
TimeoutReturn == Ret(<<>>)

\* lines 619-631: the request is sent and times out.  get_file returns
\* without closing fn_: the interpreter may finalise the abandoned handle as
\* the frame is released (fin, its buffer is then written out) or leave it
\* open until a later collection
ReqTimeout ==
    /\ pc = "loop"
    /\ nreq' = nreq + 1
    /\ lastLoc' = LoadLoc(files, fn_)
    /\ timedOut' = TRUE
    /\ retrying' = FALSE
    /\ result' = TimeoutReturn
    /\ pc' = "done"
    /\ \E fin \in (IF fn_.open THEN BOOLEAN ELSE {FALSE}) :
         /\ files' = IF fin THEN CloseFiles(files, fn_) ELSE files
         /\ fn_' = IF fin THEN NoHandle ELSE fn_
         /\ nopen' = IF fin THEN nopen - 1 ELSE nopen
    /\ UNCHANGED <<op, path, destArg, makedirs, gzip, dest, d_tries, dirs,
                   umask, recv, nempty, mism, zeroByte, probed, probePath,
                   probeRet, ext>>

\* the replies with data: c is the chunk the master read from its file, r
\* the reply; a chunk that was compressed is flagged gzip
DataReplies ==
    {x \in {[c |-> c,
             r |-> [data |-> IF sent THEN Compress(c) ELSE c, dest |-> d,
                    hsum |-> 0 - 1, hash_type |-> "none", gzip |-> g]] :
               c \in Chunks, d \in {<<>>, Rel},
               g \in BOOLEAN, sent \in BOOLEAN} :
        x.r.gzip \/ x.r.data = x.c}

\* lines 619-629 and 654-666: a reply with data; k is how many of the
\* bytes written reach the disk
ReplyDataStep(c, r) ==
    /\ pc = "loop"
    /\ \E o \in {OpenForData(r)}, dec \in {Decode(r)} :
         /\ LoadLoc(files, fn_) + Len(c) <= MaxLen
         /\ nreq' = nreq + 1
         /\ lastLoc' = LoadLoc(files, fn_)
         /\ retrying' = FALSE
         /\ recv' = recv \o c
         /\ dirs' = o.dirs
         /\ dest' = o.dest
         /\ umask' = o.umask
         /\ nopen' = o.nopen
         /\ IF o.tag # "ok" \/ ~dec.ok
            THEN /\ pc' = "done"
                 /\ result' = Raise(IF o.tag # "ok" THEN o.tag ELSE "IOError")
                 /\ fn_' = o.fn
                 /\ files' = o.files
            ELSE /\ pc' = "loop"
                 /\ result' = result
                 /\ \E all \in {o.files[o.fn.path] \o o.fn.buf \o dec.val} :
                    \E k \in Len(o.files[o.fn.path])..Len(all) :
                      /\ files' = WithFile(o.files, o.fn.path,
                                           SubSeq(all, 1, k))
                      /\ fn_' = [o.fn EXCEPT
                                   !.buf = SubSeq(all, k + 1, Len(all))]
    /\ UNCHANGED <<op, path, destArg, makedirs, gzip, d_tries, nempty, mism,
                   zeroByte, timedOut, probed, probePath, probeRet>>

ReplyData ==
    /\ \E x \in DataReplies : ReplyDataStep(x.c, x.r)
    /\ UNCHANGED ext

\* the replies without data: hash_type comes only with hsum
EmptyReplies ==
    {r \in [data : {<<>>}, dest : {<<>>, Rel}, hsum : Hsums,
            hash_type : HashTypes, gzip : {FALSE}] :
        r.hsum = 0 - 1 => r.hash_type = "none"}

\* lines 619-629, 633-653 and 667-669: a reply without data
ReplyEmptyStep(r) ==
    /\ pc = "loop"
    /\ \E z \in {ZeroByteFile(r)} :
       \E want \in {z.tag = "ok" /\ VerifyWanted(r, d_tries)} :
       \E v \in {IF want THEN Verify(r, z.files, z.dest) ELSE "break"} :
       \E end \in {IF z.tag # "ok" THEN z.tag ELSE v} :
         /\ nreq' = nreq + 1
         /\ lastLoc' = LoadLoc(files, fn_)
         /\ nempty' = nempty + 1
         /\ zeroByte' = (zeroByte \/ z.zero)
         /\ dirs' = z.dirs
         /\ dest' = z.dest
         /\ umask' = z.umask
         /\ d_tries' = IF want THEN d_tries + 1 ELSE d_tries
         /\ mism' = IF end = "continue" THEN mism + 1 ELSE mism
         /\ retrying' = (end = "continue")
         /\ pc' = IF end = "continue" THEN "loop" ELSE "done"
         /\ result' = IF end = "continue" THEN result
                      ELSE IF end = "break" THEN Ret(z.dest)
                      ELSE Raise(end)
         /\ files' = IF end = "break" THEN CloseFiles(z.files, fn_)
                     ELSE z.files
         /\ fn_' = IF end = "break" THEN NoHandle ELSE fn_
         /\ nopen' = IF end = "break" /\ fn_.open THEN nopen - 1 ELSE nopen
    /\ UNCHANGED <<op, path, destArg, makedirs, gzip, recv, timedOut,
                   probed, probePath, probeRet>>

ReplyEmpty ==
    /\ \E r \in EmptyReplies : ReplyEmptyStep(r)
    /\ UNCHANGED ext

(***************************************************************************)
(* Client.is_cached                                                        *)
(***************************************************************************)
IsCached(p, env) ==
    LET localsfilesdest ==
            PathJoin(PathJoin(CacheDir, LocalFilesSeg), LStrip(p, {"/"}))
        filesdest ==
            PathJoin(PathJoin(PathJoin(CacheDir, FilesSeg), env),
                     LStrip(p, {"s", "a", "l", "t", ":", "/"}))
    IN  IF Exists(filesdest) THEN filesdest
        ELSE IF Exists(localsfilesdest) THEN localsfilesdest
        ELSE <<>>

\* is_cached(p, env) for a p of the set P
IsCachedOf(P) ==
    /\ pc \in {"idle", "done"}
    /\ ~probed
    /\ \E p \in P :
         /\ probePath' = p
         /\ probeRet' = IsCached(p, Env)
    /\ probed' = TRUE
    /\ UNCHANGED <<pc, op, path, destArg, makedirs, gzip, dest, fn_, d_tries,
                   result, dirs, files, umask, nopen, nreq, lastLoc, retrying,
                   recv, nempty, mism, zeroByte, timedOut, ext>>

IsCachedCall == IsCachedOf(Paths)

(***************************************************************************)
(* Client.cache_local_file and the localfiles cache.                       *)
(***************************************************************************)
LocalRoot == PathJoin(CacheDir, LocalFilesSeg)
AbsX == <<"/", "x">>
AbsAX == <<"/", "a", "x">>
LocalPaths == {AbsX, AbsAX, BareX, <<"a", "x">>}

\* the file a path names: a relative path is read from the working
\* directory of the process (os.getcwd())
AbsPath(cwd, p) == PathJoin(cwd, p)

\* shutil._samefile(src, dst): both names lead to one existing file
SameFile(cwd, ds, fs, src, dst) ==
    /\ AbsPath(cwd, src) = AbsPath(cwd, dst)
    /\ (IsFileIn(fs, AbsPath(cwd, src)) \/ IsDirIn(ds, AbsPath(cwd, src)))

\* shutil.copyfile(src, dst) succeeds: src is a file, dst can be written
CanCopy(cwd, ds, fs, src, dst) ==
    /\ IsFileIn(fs, AbsPath(cwd, src))
    /\ CanOpenWrite(ds, fs, AbsPath(cwd, dst))

\* lines 189-197, called with the working directory cwd
CacheLocalFile(cwd, p) ==
    LET ldest == PathJoin(LocalRoot, LStrip(p, {"/"}))
        destdir == Dirname(ldest)
        ds1 == IF IsDir(destdir) THEN dirs ELSE MakeDirs(dirs, destdir)
    IN  IF ~IsDir(destdir) /\ ~MakeDirsOk(dirs, files, destdir)
        THEN [res |-> Raise("OSError"), dirs |-> dirs, files |-> files]
        ELSE IF SameFile(cwd, ds1, files, p, ldest)
        THEN [res |-> Raise("Error"), dirs |-> ds1, files |-> files]
        ELSE IF ~CanCopy(cwd, ds1, files, p, ldest)
        THEN [res |-> Raise("IOError"), dirs |-> ds1, files |-> files]
        ELSE [res |-> Ret(ldest), dirs |-> ds1,
              files |-> WithFile(files, ldest, files[AbsPath(cwd, p)])]

\* gd.cwd is the working directory of the minion process
CacheLocalFileCall ==
    /\ pc = "idle"
    /\ gd.stage = "local"
    /\ \E p \in LocalPaths :
       \E c \in {CacheLocalFile(gd.cwd, p)} :
         /\ path' = p
         /\ result' = c.res
         /\ dirs' = c.dirs
         /\ files' = c.files
    /\ op' = "cache_local_file"
    /\ pc' = "done"
    /\ probed' = FALSE
    /\ probePath' = <<>>
    /\ probeRet' = <<>>
    /\ UNCHANGED <<destArg, makedirs, gzip, dest, fn_, d_tries, umask, nopen,
                   nreq, lastLoc, retrying, recv, nempty, mism, zeroByte,
                   timedOut, ext>>

IsCachedLocalCall == IsCachedOf(Paths \cup LocalPaths)

(***************************************************************************)
(* Initial states: the filesystem before the call.                         *)
(***************************************************************************)
OldBytes == <<2>>
EmptyFs == [q \in {} |-> <<>>]
CacheX == PathJoin(EnvRoot, <<"x">>)

InitFs ==
    {[dirs |-> {Slash, CacheDir, DestDir}, files |-> EmptyFs],
     [dirs |-> {Slash, CacheDir, FilesRoot, DestDir}, files |-> EmptyFs],
     [dirs |-> {Slash, CacheDir, FilesRoot, DestDir},
      files |-> WithFile(EmptyFs, EnvRoot, OldBytes)],
     [dirs |-> {Slash, CacheDir, FilesRoot, EnvRoot, DestDir},
      files |-> EmptyFs],
     [dirs |-> {Slash, CacheDir, FilesRoot, EnvRoot, DestDir},
      files |-> WithFile(EmptyFs, CacheX, OldBytes)],
     [dirs |-> {Slash, CacheDir, FilesRoot, EnvRoot, CacheX, DestDir},
      files |-> EmptyFs],
     [dirs |-> {Slash, CacheDir, FilesRoot, EnvRoot}, files |-> EmptyFs],
     [dirs |-> {Slash, CacheDir, FilesRoot, EnvRoot},
      files |-> WithFile(EmptyFs, DestDir, OldBytes)],
     [dirs |-> {Slash, CacheDir, FilesRoot, EnvRoot, DestDir},
      files |-> WithFile(EmptyFs, DestFile, OldBytes)],
     [dirs |-> {Slash, CacheDir, FilesRoot, EnvRoot, DestDir, DestFile},
      files |-> EmptyFs]}

\* no file_roots configured, no _cache_loc block entered, no directory call
NoOpts == [file_roots |-> [e \in {} |-> <<>>], hash_type |-> "md5"]
NoSessions == [s \in {} |-> <<>>]
NoDirCall == [stage |-> "none"]

\* no call was made yet
InitLocals ==
    /\ op = "none"
    /\ path = <<>>
    /\ destArg = <<>>
    /\ makedirs = FALSE
    /\ gzip = FALSE
    /\ dest = <<>>
    /\ fn_ = NoHandle
    /\ d_tries = 0
    /\ result = NoResult
    /\ umask = UmaskDefault
    /\ nopen = 0
    /\ nreq = 0
    /\ lastLoc = 0 - 1
    /\ retrying = FALSE
    /\ recv = <<>>
    /\ nempty = 0
    /\ mism = 0
    /\ zeroByte = FALSE
    /\ timedOut = FALSE
    /\ probed = FALSE
    /\ probePath = <<>>
    /\ probeRet = <<>>

InitCallState ==
    /\ InitLocals
    /\ opts = NoOpts
    /\ gd = NoDirCall

InitCommon ==
    /\ InitCallState
    /\ sess = NoSessions

Init ==
    /\ pc = "idle"
    /\ \E f \in InitFs : dirs = f.dirs /\ files = f.files
    /\ InitCommon

Next ==
    \/ GetFileCall
    \/ ReqTimeout
    \/ ReplyData
    \/ ReplyEmpty

Spec == Init /\ [][Next]_vars

\* every step of a call that is under way is eventually taken
SpecFair == Spec /\ WF_vars(ReqTimeout \/ ReplyData \/ ReplyEmpty)

(***************************************************************************)
(* cache_file followed by is_cached.                                       *)
(***************************************************************************)
NextCache ==
    \/ CacheFileCall
    \/ ReqTimeout
    \/ ReplyData
    \/ ReplyEmpty
    \/ IsCachedCall

SpecCache == Init /\ [][NextCache]_vars

(***************************************************************************)
(* get_file with the last reply of the master kept in gd.                  *)
(***************************************************************************)
SeenReply(r) == [stage |-> "reply", reply |-> r]

ReplyDataSeen ==
    \E x \in DataReplies :
        /\ ReplyDataStep(x.c, x.r)
        /\ gd' = SeenReply(x.r)
        /\ UNCHANGED <<opts, sess>>

ReplyEmptySeen ==
    \E r \in EmptyReplies :
        /\ ReplyEmptyStep(r)
        /\ gd' = SeenReply(r)
        /\ UNCHANGED <<opts, sess>>

\* get_file('salt://x', dest, True, 'base', gzip)
WireCall ==
    \E d \in Dests, gz \in BOOLEAN : Enter("get_file", SaltX, d, TRUE, gz)

\* a disk without files on which /d is a directory
InitWire ==
    /\ pc = "idle"
    /\ \E f \in {g \in InitFs : g.files = EmptyFs /\ DestDir \in g.dirs} :
         dirs = f.dirs /\ files = f.files
    /\ InitCommon

NextWire ==
    \/ WireCall
    \/ ReqTimeout
    \/ ReplyDataSeen
    \/ ReplyEmptySeen

SpecWire == InitWire /\ [][NextWire]_vars


(***************************************************************************)
(* cache_local_file and is_cached over both caches: each of the files that *)
(* the two calls look at is there or not when the minion starts.           *)
(***************************************************************************)
CachedCandidates ==
    {AbsX, AbsAX, PathJoin(EnvRoot, <<"x">>), PathJoin(EnvRoot, <<"a", "x">>),
     PathJoin(LocalRoot, <<"x">>)}

\* the working directory is an existing directory
InitLocalCache ==
    /\ pc = "idle"
    /\ \E present \in SUBSET CachedCandidates, ld \in BOOLEAN :
         /\ PathJoin(LocalRoot, <<"x">>) \in present => ld
         /\ dirs = {Slash, CacheDir, FilesRoot, EnvRoot}
                    \cup (IF ld THEN {LocalRoot} ELSE {})
         /\ files = [q \in present |-> OldBytes]
    /\ InitLocals
    /\ opts = NoOpts
    /\ sess = NoSessions
    /\ \E cwd \in dirs \ {FilesRoot, EnvRoot} :
         gd = [stage |-> "local", cwd |-> cwd]

NextLocalCache ==
    \/ CacheLocalFileCall
    \/ IsCachedLocalCall

SpecLocalCache == InitLocalCache /\ [][NextLocalCache]_vars

(***************************************************************************)
(* get_dir and cache_dir: which of the listed files are fetched.           *)
(***************************************************************************)
\* line 275: the requested directory, scheme and trailing slashes removed
GetDirPath(p) == RStripSlash(CheckProto(p).val)

\* the listed name only has to begin with the requested path
GetDirMatchesAnyStart(dpath, fn) == StartsWith(fn, dpath)

\* lines 287-294: fn_ starts with the path and a '/' follows it
GetDirMatches(dpath, fn) ==
    /\ StartsWith(fn, dpath)
    /\ Len(fn) > Len(dpath)
    /\ fn[Len(dpath) + 1] = "/"

\* lines 144-149: the requested directory with one '/' at its end
CacheDirPath(p) ==
    IF EndsWith(CheckProto(p).val, Slash) THEN CheckProto(p).val
    ELSE CheckProto(p).val \o Slash

\* line 160
CacheDirMatches(dpath, fn) == Strip(fn) # <<>> /\ StartsWith(fn, dpath)

\* the files of a listing that the call's test keeps, in listing order
GetDirSelected(p, listing) ==
    LET Keep(fn) == GetDirMatches(GetDirPath(p), fn)
    IN  SelectSeq(listing, Keep)

CacheDirSelected(p, listing) ==
    LET Keep(fn) == CacheDirMatches(CacheDirPath(p), fn)
    IN  SelectSeq(listing, Keep)

\* the listings of the master and the directories asked for
FileNames == SeqsUpTo({"f", "b", "/"}, MaxName) \cup {<<" ">>}
Listings == SeqsUpTo(FileNames, 2)
DirPaths ==
    {SaltScheme \o t : t \in SeqsUpTo({"f", "/"}, MaxSuffix)} \cup {<<"f">>}

InitSelect ==
    /\ pc = "idle"
    /\ dirs = {Slash}
    /\ files = EmptyFs
    /\ op = "none"
    /\ \E p \in DirPaths : path = p
    /\ destArg = <<>>
    /\ makedirs = FALSE
    /\ gzip = FALSE
    /\ dest = <<>>
    /\ fn_ = NoHandle
    /\ d_tries = 0
    /\ result = NoResult
    /\ umask = UmaskDefault
    /\ nopen = 0
    /\ nreq = 0
    /\ lastLoc = 0 - 1
    /\ retrying = FALSE
    /\ recv = <<>>
    /\ nempty = 0
    /\ mism = 0
    /\ zeroByte = FALSE
    /\ timedOut = FALSE
    /\ probed = FALSE
    /\ probePath = <<>>
    /\ probeRet = <<>>
    /\ opts = NoOpts
    /\ sess = NoSessions
    /\ \E l \in Listings : gd = [stage |-> "listed", listing |-> l,
                                 sel |-> <<>>]

\* the files one of the two calls picks from the listing it was given;
\* a path without the scheme raises before the listing is looked at
SelectStep(o, picked) ==
    /\ pc = "idle"
    /\ op' = o
    /\ pc' = "done"
    /\ IF CheckProto(path).ok
       THEN /\ gd' = [gd EXCEPT !.stage = "selected",
                                !.sel = picked]
            /\ result' = result
       ELSE /\ gd' = gd
            /\ result' = Raise("MinionError")
    /\ UNCHANGED <<path, destArg, makedirs, gzip, dest, fn_, d_tries, dirs,
                   files, umask, nopen, nreq, lastLoc, retrying, recv, nempty,
                   mism, zeroByte, timedOut, probed, probePath, probeRet,
                   opts, sess>>

GetDirSelect == SelectStep("get_dir", GetDirSelected(path, gd.listing))
CacheDirSelect == SelectStep("cache_dir", CacheDirSelected(path, gd.listing))

NextSelect ==
    \/ GetDirSelect
    \/ CacheDirSelect

SpecSelect == InitSelect /\ [][NextSelect]_vars

(***************************************************************************)
(* LocalClient: the file roots on the local filesystem.                    *)
(***************************************************************************)
\* values a call returns besides strings: a list (its order is that of
\* os.walk, so it is kept as a bag), an empty dict and a digest record
ListOf(b) == [list |-> b]
EmptyDict == [dict |-> "empty"]
HashRecord(h, t) == [hsum |-> h, hash_type |-> t]

\* the environment is taken to be configured whatever file_roots holds
EnvAssumed(env) == TRUE

\* env in self.opts['file_roots']
EnvConfigured(env) == env \in DOMAIN opts.file_roots

\* lines 443-445: an escaped path loses its '|'
Unescape(p) == IF StartsWith(p, <<"|">>) THEN Tail(p) ELSE p

\* the roots are searched from the last one to the first
RECURSIVE FindInLastFirst(_, _, _)
FindInLastFirst(rs, rel, i) ==
    IF i > Len(rs) THEN [path |-> <<>>, rel |-> <<>>]
    ELSE IF IsFile(PathJoin(rs[Len(rs) + 1 - i], rel))
    THEN [path |-> PathJoin(rs[Len(rs) + 1 - i], rel), rel |-> rel]
    ELSE FindInLastFirst(rs, rel, i + 1)

\* lines 446-452: the loop over the roots, from root number i on
RECURSIVE FindIn(_, _, _)
FindIn(rs, rel, i) ==
    IF i > Len(rs) THEN [path |-> <<>>, rel |-> <<>>]
    ELSE IF IsFile(PathJoin(rs[i], rel))
    THEN [path |-> PathJoin(rs[i], rel), rel |-> rel]
    ELSE FindIn(rs, rel, i + 1)

\* LocalClient._find_file; tag "KeyError": self.opts['file_roots'][env]
\* raised
FindFile(p, env) ==
    IF ~EnvConfigured(env) THEN [tag |-> "ok", path |-> <<>>, rel |-> <<>>]
    ELSE IF env \notin DOMAIN opts.file_roots
    THEN [tag |-> "KeyError", path |-> <<>>, rel |-> <<>>]
    ELSE [tag |-> "ok",
          path |-> FindIn(opts.file_roots[env], Unescape(p), 1).path,
          rel |-> FindIn(opts.file_roots[env], Unescape(p), 1).rel]

\* the file is also copied to the destination it was asked for
LocalGetFileCopies(p, d, mk, env) ==
    IF ~CheckProto(p).ok
    THEN [res |-> Raise("MinionError"), dirs |-> dirs, files |-> files]
    ELSE IF FindFile(CheckProto(p).val, env).path = <<>> \/ d = <<>>
    THEN [res |-> Ret(FindFile(CheckProto(p).val, env).path),
          dirs |-> dirs, files |-> files]
    ELSE [res |-> Ret(d), dirs |-> MakeDirs(dirs, Dirname(d)),
          files |-> WithFile(files, d,
                             files[FindFile(CheckProto(p).val, env).path])]

\* LocalClient.get_file, lines 459-463
LocalGetFile(p, d, mk, env) ==
    IF ~CheckProto(p).ok
    THEN [res |-> Raise("MinionError"), dirs |-> dirs, files |-> files]
    ELSE IF FindFile(CheckProto(p).val, env).tag # "ok"
    THEN [res |-> Raise(FindFile(CheckProto(p).val, env).tag),
          dirs |-> dirs, files |-> files]
    ELSE [res |-> Ret(FindFile(CheckProto(p).val, env).path),
          dirs |-> dirs, files |-> files]

\* os.walk(top): the directories it visits
Walk(top) == IF IsDir(top) THEN {d \in dirs : IsUnder(d, top)} ELSE {}

\* the files and the subdirectories os.walk reports for a directory
FilesIn(d) == {q \in DOMAIN files : Dirname(q) = d}
SubdirsIn(d) == {q \in dirs : q # d /\ Dirname(q) = d}

\* os.path.relpath(p, start) for a p that is start or below it
RelPath(p, start) ==
    IF p = Norm(start) THEN <<".">>
    ELSE SubSeq(p, Len(Norm(start)) + 2, Len(p))

\* a directory counts as empty as soon as it holds no file
HasNoFiles(d) == FilesIn(d) = {}

\* line 492
IsEmptyDir(d) == SubdirsIn(d) = {} /\ FilesIn(d) = {}

\* what the three listings collect below one root
RootFiles(r) ==
    {RelPath(q, r) : q \in {f \in DOMAIN files : Dirname(f) \in Walk(r)}}
RootDirs(r) == {RelPath(d, r) : d \in Walk(r)}
RootEmptyDirs(r) == {RelPath(d, r) : d \in {w \in Walk(r) : IsEmptyDir(w)}}

RootEntries(what, r) ==
    CASE what = "files" -> RootFiles(r)
      [] what = "dirs" -> RootDirs(r)
      [] what = "emptydirs" -> RootEmptyDirs(r)

\* ret after the loop over the roots: one entry per root and name
Collected(sets) ==
    LET sum[i \in 0..Len(sets)] ==
            IF i = 0 THEN EmptyBag ELSE sum[i - 1] (+) SetToBag(sets[i])
    IN  sum[Len(sets)]

\* lines 469-481, 487-494 and 500-506; self.opts['file_roots'][env] raises
\* KeyError for an env that is no key of the dict
Listing(env, what) ==
    IF ~EnvConfigured(env) THEN Ret(ListOf(EmptyBag))
    ELSE IF env \notin DOMAIN opts.file_roots THEN Raise("KeyError")
    ELSE Ret(ListOf(Collected([i \in 1..Len(opts.file_roots[env]) |->
                                  RootEntries(what, opts.file_roots[env][i])])))

LocalFileList(env) == Listing(env, "files")
LocalDirList(env) == Listing(env, "dirs")
LocalFileListEmptydirs(env) == Listing(env, "emptydirs")

\* the digest of an ad hoc file is made with the configured algorithm
AdHocHashTypeOfOpts == opts.hash_type

\* lines 524-525 and 735-736
AdHocHashType == "md5"

\* lines 518-526 and 728-737: hash_file of a path without the scheme
AdHocHash(p) ==
    IF ~IsFile(p) THEN Ret(EmptyDict)
    ELSE Ret(HashRecord(Digest(AdHocHashType, files[p]), AdHocHashType))

\* LocalClient.hash_file
LocalHashFile(p, env) ==
    IF ~CheckProto(p).ok THEN AdHocHash(p)
    ELSE IF FindFile(CheckProto(p).val, env).tag # "ok"
    THEN Raise(FindFile(CheckProto(p).val, env).tag)
    ELSE IF FindFile(CheckProto(p).val, env).path = <<>> THEN Ret(EmptyDict)
    ELSE Ret(HashRecord(Digest(opts.hash_type,
                               files[FindFile(CheckProto(p).val, env).path]),
                        opts.hash_type))

\* a call that is over in one step: its name, arguments, result and the
\* filesystem it leaves
OneStep(o, p, d, mk, res, ds, fs, sent) ==
    /\ pc = "idle"
    /\ op' = o
    /\ path' = p
    /\ destArg' = d
    /\ makedirs' = mk
    /\ result' = res
    /\ dirs' = ds
    /\ files' = fs
    /\ nreq' = nreq + sent
    /\ pc' = "done"
    /\ UNCHANGED <<gzip, dest, fn_, d_tries, umask, nopen, lastLoc, retrying,
                   recv, nempty, mism, zeroByte, timedOut, probed, probePath,
                   probeRet, ext>>

RootA == <<"/", "a">>
RootB == <<"/", "b">>
LocalGetPaths ==
    {SaltX, SaltScheme \o <<"|", "x">>, SaltScheme \o <<"d", "/", "y">>, BareX}
HashPaths == {SaltX, AbsX, PathJoin(RootA, <<"x">>), RootA, <<"/", "q">>}

LocalGetFileCall ==
    \E p \in LocalGetPaths, d \in Dests, mk \in BOOLEAN :
    \E g \in {LocalGetFile(p, d, mk, Env)} :
        OneStep("local.get_file", p, d, mk, g.res, g.dirs, g.files, 0)

LocalFileListCall ==
    OneStep("local.file_list", <<>>, <<>>, FALSE, LocalFileList(Env),
            dirs, files, 0)

LocalDirListCall ==
    OneStep("local.dir_list", <<>>, <<>>, FALSE, LocalDirList(Env),
            dirs, files, 0)

LocalFileListEmptydirsCall ==
    OneStep("local.file_list_emptydirs", <<>>, <<>>, FALSE,
            LocalFileListEmptydirs(Env), dirs, files, 0)

LocalHashFileCall ==
    \E p \in HashPaths :
        OneStep("local.hash_file", p, <<>>, FALSE, LocalHashFile(p, Env),
                dirs, files, 0)

\* RemoteClient.hash_file of a path without the scheme: no request is sent
RemoteAdHocHashCall ==
    \E p \in {q \in HashPaths : ~CheckProto(q).ok} :
        OneStep("remote.hash_file", p, <<>>, FALSE, AdHocHash(p),
                dirs, files, 0)

\* the local filesystem: x in root a and in root b is missing, a file or a
\* directory; /x, a/d/y, the empty a/e and a/s with its one subdirectory t
\* are there or not
Kinds == {"none", "file", "dir"}
LocalFsOf(ax, bx, absx, ady, ae, ast) ==
    [dirs |-> {Slash, RootA, RootB}
              \cup (IF ax = "dir" THEN {PathJoin(RootA, <<"x">>)} ELSE {})
              \cup (IF bx = "dir" THEN {PathJoin(RootB, <<"x">>)} ELSE {})
              \cup (IF ady THEN {PathJoin(RootA, <<"d">>)} ELSE {})
              \cup (IF ae THEN {PathJoin(RootA, <<"e">>)} ELSE {})
              \cup (IF ast THEN {PathJoin(RootA, <<"s">>),
                                 PathJoin(RootA, <<"s", "/", "t">>)}
                    ELSE {}),
     files |-> [q \in (IF ax = "file" THEN {PathJoin(RootA, <<"x">>)} ELSE {})
                      \cup (IF bx = "file" THEN {PathJoin(RootB, <<"x">>)}
                            ELSE {})
                      \cup (IF absx THEN {AbsX} ELSE {})
                      \cup (IF ady THEN {PathJoin(RootA, <<"d", "/", "y">>)}
                            ELSE {})
                |-> IF q = PathJoin(RootA, <<"x">>) THEN <<1>> ELSE OldBytes]]

Dev == <<"d", "e", "v">>
FileRootsConfigs ==
    {[e \in {Env} |-> <<RootA, RootB>>], [e \in {Env} |-> <<RootB, RootA>>],
     [e \in {Env} |-> <<RootA>>], [e \in {Dev} |-> <<RootA, RootB>>],
     [e \in {} |-> <<>>]}

InitLocal ==
    /\ pc = "idle"
    /\ \E ax \in Kinds, bx \in Kinds, absx \in BOOLEAN, ady \in BOOLEAN,
          ae \in BOOLEAN, ast \in BOOLEAN :
       \E f \in {LocalFsOf(ax, bx, absx, ady, ae, ast)} :
         dirs = f.dirs /\ files = f.files
    /\ \E fr \in FileRootsConfigs, ht \in {"md5", "sha1"} :
         opts = [file_roots |-> fr, hash_type |-> ht]
    /\ op = "none"
    /\ path = <<>>
    /\ destArg = <<>>
    /\ makedirs = FALSE
    /\ gzip = FALSE
    /\ dest = <<>>
    /\ fn_ = NoHandle
    /\ d_tries = 0
    /\ result = NoResult
    /\ umask = UmaskDefault
    /\ nopen = 0
    /\ nreq = 0
    /\ lastLoc = 0 - 1
    /\ retrying = FALSE
    /\ recv = <<>>
    /\ nempty = 0
    /\ mism = 0
    /\ zeroByte = FALSE
    /\ timedOut = FALSE
    /\ probed = FALSE
    /\ probePath = <<>>
    /\ probeRet = <<>>
    /\ sess = NoSessions
    /\ gd = NoDirCall

NextLocal ==
    \/ LocalGetFileCall
    \/ LocalFileListCall
    \/ LocalDirListCall
    \/ LocalFileListEmptydirsCall
    \/ LocalHashFileCall
    \/ RemoteAdHocHashCall

SpecLocal == InitLocal /\ [][NextLocal]_vars

(***************************************************************************)
(* RemoteClient: the listing calls, and get_dir and cache_dir with the     *)
(* get_file calls they make.  A listing reply is a list of names; a        *)
(* request that times out makes the listing call return ''.                *)
(***************************************************************************)
ListOps ==
    {"remote.file_list", "remote.file_list_emptydirs", "remote.dir_list",
     "remote.list_env"}

DirNames == {<<"f">>, <<"f", "b">>, <<"f", "/", "b">>, <<"f", "/", "e">>}
ListReplies ==
    {<<>>, << <<"f", "/", "b">> >>, << <<"f", "b">>, <<"f", "/", "b">> >>,
     << <<"f">>, <<"f", "/", "e">> >>,
     << <<"b", "/", "f", "/", "e">>, <<"b", "/", "f", "b">> >>}

\* a timed-out listing is answered with an empty list
ListTimeoutReturnsList == Ret(ListOf(<<>>))

\* lines 684-685, 700-701, 716-717 and 764-765
ListTimeoutReturn == Ret(<<>>)

\* what a for loop over the value of a listing call runs through: the
\* names of a list, and nothing for the string ''
IterOf(v) == IF v = <<>> THEN <<>> ELSE v.list

\* the whole path is cut off the listed names
PrefixIsPath(dpath) == dpath

\* lines 278-283: the directories that precede the last segment of the path
PrefixOf(dpath) ==
    IF \E i \in 1..Len(dpath) : dpath[i] = "/"
    THEN SubSeq(dpath, 1,
                (CHOOSE i \in 1..Len(dpath) :
                    dpath[i] = "/" /\ \A j \in (i + 1)..Len(dpath) :
                                         dpath[j] # "/") - 1)
    ELSE <<>>

\* lines 297 and 317: the path below dest
MinionRelpath(prefix, fn) ==
    LStrip(SubSeq(fn, Len(prefix) + 1, Len(fn)), {"/"})

\* '{0}/{1}'.format(dest, minion_relpath)
Target(d, rel) == d \o Slash \o rel

\* RemoteClient.file_list, file_list_emptydirs, dir_list, list_env: the
\* request is sent
RemoteListCall ==
    /\ pc = "idle"
    /\ \E o \in ListOps : op' = o
    /\ nreq' = nreq + 1
    /\ pc' = "listing"
    /\ UNCHANGED <<path, destArg, makedirs, gzip, dest, fn_, d_tries, result,
                   dirs, files, umask, nopen, lastLoc, retrying, recv, nempty,
                   mism, zeroByte, timedOut, probed, probePath, probeRet, ext>>

\* the reply to a listing call, or the timeout of its request
RemoteListReply ==
    /\ pc = "listing"
    /\ op \in ListOps
    /\ \E to \in BOOLEAN, l \in ListReplies :
         /\ to => l = <<>>
         /\ timedOut' = to
         /\ result' = IF to THEN ListTimeoutReturn ELSE Ret(ListOf(l))
    /\ pc' = "done"
    /\ UNCHANGED <<op, path, destArg, makedirs, gzip, dest, fn_, d_tries,
                   dirs, files, umask, nopen, nreq, lastLoc, retrying, recv,
                   nempty, mism, zeroByte, probed, probePath, probeRet, ext>>

\* get_dir(path, dest, env, gzip), lines 273-286, and cache_dir(path, env,
\* include_empty), lines 143-159: up to the file_list request
DirCall(o, p, d, gz, ie) ==
    /\ pc = "idle"
    /\ op' = o
    /\ IF ~CheckProto(p).ok
       THEN /\ result' = Raise("MinionError")
            /\ pc' = "done"
            /\ nreq' = nreq
            /\ gd' = [stage |-> "raised", arg |-> p, dpath |-> <<>>,
                      dest |-> d, gz |-> gz, inclEmpty |-> ie,
                      listTimedOut |-> FALSE, todo |-> <<>>, calls |-> <<>>,
                      ret |-> <<>>, emptyList |-> <<>>]
       ELSE /\ result' = result
            /\ pc' = "listing"
            /\ nreq' = nreq + 1
            /\ gd' = [stage |-> "files", arg |-> p,
                      dpath |-> IF o = "get_dir" THEN GetDirPath(p)
                                ELSE CacheDirPath(p),
                      dest |-> d, gz |-> gz, inclEmpty |-> ie,
                      listTimedOut |-> FALSE, todo |-> <<>>, calls |-> <<>>,
                      ret |-> <<>>, emptyList |-> <<>>]
    /\ UNCHANGED <<path, destArg, makedirs, gzip, dest, fn_, d_tries, dirs,
                   files, umask, nopen, lastLoc, retrying, recv, nempty, mism,
                   zeroByte, timedOut, probed, probePath, probeRet, opts,
                   sess>>

GetDirCall ==
    \E p \in {SaltScheme \o <<"f">>, SaltScheme \o <<"f", "/">>, <<"f">>,
               SaltScheme \o <<"b", "/", "f">>} :
        DirCall("get_dir", p, DestDir, FALSE, TRUE)

CacheDirCall ==
    \E p \in {SaltScheme \o <<"f">>, SaltScheme \o <<"f", "/">>, <<"f">>},
       ie \in BOOLEAN :
        DirCall("cache_dir", p, <<>>, FALSE, ie)

\* the value file_list(env) gives the loop of lines 286 and 158-160: the
\* names picked from it are the get_file calls to make
DirFilesReply ==
    /\ pc = "listing"
    /\ op \in {"get_dir", "cache_dir"}
    /\ gd.stage = "files"
    /\ \E to \in BOOLEAN, l \in ListReplies :
       \E v \in {IF to THEN ListTimeoutReturn.val ELSE ListOf(l)} :
         /\ to => l = <<>>
         /\ gd' = [gd EXCEPT
                     !.stage = "fetching",
                     !.listTimedOut = to,
                     !.todo = IF op = "get_dir"
                              THEN GetDirSelected(gd.arg, IterOf(v))
                              ELSE CacheDirSelected(gd.arg, IterOf(v))]
    /\ pc' = "step"
    /\ UNCHANGED <<op, path, destArg, makedirs, gzip, dest, fn_, d_tries,
                   result, dirs, files, umask, nopen, nreq, lastLoc, retrying,
                   recv, nempty, mism, zeroByte, timedOut, probed, probePath,
                   probeRet, opts, sess>>

\* the arguments of the get_file call made for a picked name: lines 299-303
\* for get_dir; for cache_dir lines 158 and 116, then line 331
FetchArgs(fn) ==
    IF op = "get_dir"
    THEN [path |-> SaltScheme \o fn,
          dest |-> Target(gd.dest, MinionRelpath(PrefixOf(gd.dpath), fn)),
          makedirs |-> TRUE, gzip |-> gd.gz]
    ELSE [path |-> SaltScheme \o fn, dest |-> <<>>, makedirs |-> TRUE,
          gzip |-> FALSE]

\* the next picked file is fetched: get_file is entered with its arguments
DirFetch ==
    /\ pc = "step"
    /\ gd.todo # <<>>
    /\ \E a \in {FetchArgs(Head(gd.todo))} :
       \E b \in {Begin(a.path, a.dest, a.makedirs)} :
         /\ gd' = [gd EXCEPT !.todo = Tail(gd.todo),
                             !.calls = Append(gd.calls, a)]
         /\ path' = a.path
         /\ destArg' = a.dest
         /\ makedirs' = a.makedirs
         /\ gzip' = a.gzip
         /\ dest' = a.dest
         /\ d_tries' = 0
         /\ dirs' = b.dirs
         /\ files' = b.files
         /\ fn_' = b.fn
         /\ nopen' = IF b.fn.open THEN nopen + 1 ELSE nopen
         /\ pc' = IF b.tag = "loop" THEN "loop" ELSE "done"
         /\ result' = IF b.tag = "loop" THEN NoResult
                      ELSE IF b.tag = "False" THEN RetFalse
                      ELSE Raise(b.tag)
    /\ lastLoc' = 0 - 1
    /\ retrying' = FALSE
    /\ recv' = <<>>
    /\ nempty' = 0
    /\ mism' = 0
    /\ zeroByte' = FALSE
    /\ timedOut' = FALSE
    /\ UNCHANGED <<op, umask, nreq, probed, probePath, probeRet, opts, sess>>

\* get_file is back: its value is appended to ret, its exception ends the
\* directory call
DirFetchReturn ==
    /\ pc = "done"
    /\ op \in {"get_dir", "cache_dir"}
    /\ gd.stage = "fetching"
    /\ IF result.tag \in {"ret", "False"}
       THEN /\ gd' = [gd EXCEPT !.ret = Append(gd.ret, result)]
            /\ pc' = "step"
       ELSE /\ gd' = [gd EXCEPT !.stage = "raised"]
            /\ pc' = "done"
    /\ UNCHANGED <<op, path, destArg, makedirs, gzip, dest, fn_, d_tries,
                   result, dirs, files, umask, nopen, nreq, lastLoc, retrying,
                   recv, nempty, mism, zeroByte, timedOut, probed, probePath,
                   probeRet, opts, sess>>

\* every picked file was fetched: get_dir, and cache_dir with include_empty,
\* ask for the empty directories; cache_dir without it returns ret
DirFilesDone ==
    /\ pc = "step"
    /\ gd.todo = <<>>
    /\ IF op = "get_dir" \/ gd.inclEmpty
       THEN /\ gd' = [gd EXCEPT !.stage = "emptydirs"]
            /\ nreq' = nreq + 1
            /\ pc' = "listing"
            /\ result' = result
       ELSE /\ gd' = [gd EXCEPT !.stage = "returned"]
            /\ nreq' = nreq
            /\ pc' = "done"
            /\ result' = Ret(ListOf(gd.ret))
    /\ UNCHANGED <<op, path, destArg, makedirs, gzip, dest, fn_, d_tries,
                   dirs, files, umask, nopen, lastLoc, retrying, recv, nempty,
                   mism, zeroByte, timedOut, probed, probePath, probeRet,
                   opts, sess>>

\* lines 307-314 for get_dir, line 178 for cache_dir
EmptyDirMatches(fn) ==
    IF op = "get_dir" THEN GetDirMatches(gd.dpath, fn)
    ELSE StartsWith(fn, gd.dpath)

\* lines 317-318 and 172-179: the directory to make for a listed name
EmptyDirTarget(fn) ==
    IF op = "get_dir"
    THEN Target(gd.dest, MinionRelpath(PrefixOf(gd.dpath), fn))
    ELSE Target(EnvRoot, fn)

\* lines 306-321 and 177-182, from name number i of the listing on: the
\* directories made and the entries added to ret; ok = FALSE when
\* os.makedirs raised
MkEmptyDirs(names, ds, fs) ==
    LET step[i \in 0..Len(names)] ==
          IF i = 0 THEN [ok |-> TRUE, dirs |-> ds, ret |-> <<>>]
          ELSE IF ~step[i - 1].ok \/ ~EmptyDirMatches(names[i])
          THEN step[i - 1]
          ELSE IF IsDirIn(step[i - 1].dirs, EmptyDirTarget(names[i]))
          THEN [step[i - 1] EXCEPT
                  !.ret = Append(@, Ret(EmptyDirTarget(names[i])))]
          ELSE IF MakeDirsOk(step[i - 1].dirs, fs, EmptyDirTarget(names[i]))
          THEN [ok |-> TRUE,
                dirs |-> MakeDirs(step[i - 1].dirs,
                                  EmptyDirTarget(names[i])),
                ret |-> Append(step[i - 1].ret,
                               Ret(EmptyDirTarget(names[i])))]
          ELSE [step[i - 1] EXCEPT !.ok = FALSE]
    IN  step[Len(names)]

\* ret.sort(): the sorted list holds what ret held
Sorted(ret) ==
    LET bag[i \in 0..Len(ret)] ==
          IF i = 0 THEN EmptyBag ELSE bag[i - 1] (+) SetToBag({ret[i]})
    IN  bag[Len(ret)]

\* the value file_list_emptydirs(env) gives the loop of lines 306 and 177
DirEmptyReply ==
    /\ pc = "listing"
    /\ op \in {"get_dir", "cache_dir"}
    /\ gd.stage = "emptydirs"
    /\ \E to \in BOOLEAN, l \in ListReplies :
       \E v \in {IF to THEN ListTimeoutReturn.val ELSE ListOf(l)} :
       \E m \in {MkEmptyDirs(IterOf(v), dirs, files)} :
         /\ to => l = <<>>
         /\ dirs' = m.dirs
         /\ gd' = [gd EXCEPT !.stage = IF m.ok THEN "returned" ELSE "raised",
                             !.ret = gd.ret \o m.ret,
                             !.emptyList = IterOf(v)]
         /\ result' = IF ~m.ok THEN Raise("OSError")
                      ELSE IF op = "get_dir"
                      THEN Ret(ListOf(Sorted(gd.ret \o m.ret)))
                      ELSE Ret(ListOf(gd.ret \o m.ret))
    /\ pc' = "done"
    /\ UNCHANGED <<op, path, destArg, makedirs, gzip, dest, fn_, d_tries,
                   files, umask, nopen, nreq, lastLoc, retrying, recv, nempty,
                   mism, zeroByte, timedOut, probed, probePath, probeRet,
                   opts, sess>>

\* the minion's disk before a directory call: the cache and /d are there,
\* bare or with a file where a fetched directory would go
InitDirFs ==
    {[dirs |-> {Slash, CacheDir, FilesRoot, EnvRoot, DestDir},
      files |-> EmptyFs],
     [dirs |-> {Slash, CacheDir, FilesRoot, EnvRoot, DestDir},
      files |-> WithFile(EmptyFs, Target(DestDir, <<"f">>), OldBytes)],
     [dirs |-> {Slash, CacheDir}, files |-> EmptyFs]}

InitDir ==
    /\ pc = "idle"
    /\ \E f \in InitDirFs : dirs = f.dirs /\ files = f.files
    /\ InitCommon

NextDir ==
    \/ RemoteListCall
    \/ RemoteListReply
    \/ GetDirCall
    \/ CacheDirCall
    \/ DirFilesReply
    \/ DirFetch
    \/ ReqTimeout
    \/ ReplyData
    \/ ReplyEmpty
    \/ DirFetchReturn
    \/ DirFilesDone
    \/ DirEmptyReply

SpecDir == InitDir /\ [][NextDir]_vars

(***************************************************************************)
(* Client._cache_loc step by step, one system call at a time, as the fetch *)
(* sessions of one minion process run it.  A session is at "out" (no block *)
(* entered), at one of the calls of lines 89-94, at "yield" (the body of   *)
(* the with block is to run), at "after" (line 96 is next) or at "raised"  *)
(* (an exception left the block).                                          *)
(***************************************************************************)
Session(p) ==
    [pc |-> "out", path |-> p, dest |-> <<>>, cumask |-> UmaskDefault,
     uses |-> 0, err |-> "none", prev |-> <<>>, made |-> FALSE,
     removed |-> FALSE]

DestDirOf(s) == Dirname(sess[s].dest)

\* what a step of session s leaves alone
CacheLocFrame ==
    UNCHANGED <<pc, op, path, destArg, makedirs, gzip, dest, fn_, d_tries,
                result, nopen, nreq, lastLoc, retrying, recv, nempty, mism,
                zeroByte, timedOut, probed, probePath, probeRet, opts, gd>>

\* lines 83-88: dest, destdir and cumask = os.umask(63)
CLEnter(s) ==
    /\ sess[s].pc \in {"out", "raised"}
    /\ sess[s].uses < MaxUses
    /\ sess' = [sess EXCEPT ![s] =
                  [@ EXCEPT !.pc = "isdir",
                            !.dest = CacheLocDest(sess[s].path, Env),
                            !.cumask = umask,
                            !.uses = @ + 1,
                            !.err = "none",
                            !.removed = FALSE]]
    /\ umask' = UmaskCache
    /\ UNCHANGED <<dirs, files>>
    /\ CacheLocFrame

\* line 89: not os.path.isdir(destdir)
NeedsDir(ds, d) == ~IsDirIn(ds, d)

CLIsDir(s) ==
    /\ sess[s].pc = "isdir"
    /\ sess' = [sess EXCEPT ![s].pc =
                  IF NeedsDir(dirs, DestDirOf(s)) THEN "isfile" ELSE "yield"]
    /\ UNCHANGED <<dirs, files, umask>>
    /\ CacheLocFrame

\* line 92: os.path.isfile(destdir)
CLIsFile(s) ==
    /\ sess[s].pc = "isfile"
    /\ sess' = [sess EXCEPT ![s].pc =
                  IF IsFile(DestDirOf(s)) THEN "remove" ELSE "makedirs"]
    /\ UNCHANGED <<dirs, files, umask>>
    /\ CacheLocFrame

\* the file is left where it is
RemoveNothing(fs, p) == fs

\* os.remove(p)
Remove(fs, p) == Without(fs, {p})

\* line 93: os.remove(destdir) raises OSError when the file is gone
CLRemove(s) ==
    /\ sess[s].pc = "remove"
    /\ IF IsFile(DestDirOf(s))
       THEN /\ files' = Remove(files, DestDirOf(s))
            /\ sess' = [sess EXCEPT ![s].pc = "makedirs",
                                    ![s].removed = TRUE]
       ELSE /\ files' = files
            /\ sess' = [sess EXCEPT ![s].pc = "raised",
                                    ![s].err = "OSError"]
    /\ UNCHANGED <<dirs, umask>>
    /\ CacheLocFrame

\* a directory that is there by now is taken as made
MakeDirsTolerant(ds, fs, d) ==
    IF IsDirIn(ds, d) THEN [ok |-> TRUE, dirs |-> ds]
    ELSE IF MakeDirsOk(ds, fs, d) THEN [ok |-> TRUE, dirs |-> MakeDirs(ds, d)]
    ELSE [ok |-> FALSE, dirs |-> ds]

\* line 94: os.makedirs(destdir) raises OSError when destdir exists or a
\* file is in its way
MakeDirsStrict(ds, fs, d) ==
    IF MakeDirsOk(ds, fs, d) THEN [ok |-> TRUE, dirs |-> MakeDirs(ds, d)]
    ELSE [ok |-> FALSE, dirs |-> ds]

CLMakedirs(s) ==
    /\ sess[s].pc = "makedirs"
    /\ \E m \in {MakeDirsStrict(dirs, files, DestDirOf(s))} :
         /\ dirs' = m.dirs
         /\ sess' = IF m.ok THEN [sess EXCEPT ![s].pc = "yield",
                                              ![s].made = TRUE]
                    ELSE [sess EXCEPT ![s].pc = "raised",
                                      ![s].err = "OSError"]
    /\ UNCHANGED <<files, umask>>
    /\ CacheLocFrame

\* line 95 and the body of the with block of lines 636-639: the file is
\* opened 'wb+' and closed; IOError when it cannot be opened, and the
\* exception leaves the block at the yield
CLBody(s) ==
    /\ sess[s].pc = "yield"
    /\ IF CanOpenWrite(dirs, files, sess[s].dest)
       THEN /\ files' = OpenWrite(files, sess[s].dest)
            /\ sess' = [sess EXCEPT ![s].pc = "after"]
       ELSE /\ files' = files
            /\ sess' = [sess EXCEPT ![s].pc = "raised",
                                    ![s].err = "IOError"]
    /\ UNCHANGED <<dirs, umask>>
    /\ CacheLocFrame

\* the umask is left as the block set it
KeepUmask(s) == umask

\* line 96: os.umask(cumask)
RestoreUmask(s) == sess[s].cumask

CLExit(s) ==
    /\ sess[s].pc = "after"
    /\ umask' = RestoreUmask(s)
    /\ sess' = [sess EXCEPT ![s].pc = "out", ![s].prev = sess[s].dest]
    /\ UNCHANGED <<dirs, files>>
    /\ CacheLocFrame

CacheLocStep(s) ==
    \/ CLEnter(s)
    \/ CLIsDir(s)
    \/ CLIsFile(s)
    \/ CLRemove(s)
    \/ CLMakedirs(s)
    \/ CLBody(s)
    \/ CLExit(s)

\* the cache before the sessions start: cachedir/files and
\* cachedir/files/base are there or not, and a directory or a regular file
\* may sit where a cache directory or a cached file is to go
CachePathA == PathJoin(EnvRoot, <<"a">>)
InitCacheFs ==
    {[dirs |-> {Slash, CacheDir}, files |-> EmptyFs],
     [dirs |-> {Slash, CacheDir, FilesRoot}, files |-> EmptyFs],
     [dirs |-> {Slash, CacheDir, FilesRoot, EnvRoot}, files |-> EmptyFs],
     [dirs |-> {Slash, CacheDir, FilesRoot, EnvRoot, CachePathA},
      files |-> EmptyFs],
     [dirs |-> {Slash, CacheDir, FilesRoot, EnvRoot},
      files |-> WithFile(EmptyFs, CacheX, OldBytes)]}

\* a regular file where a directory must be
InitCacheFsBlocked ==
    {[dirs |-> {Slash, CacheDir, FilesRoot},
      files |-> WithFile(EmptyFs, EnvRoot, OldBytes)],
     [dirs |-> {Slash, CacheDir, FilesRoot, EnvRoot},
      files |-> WithFile(EmptyFs, CachePathA, OldBytes)],
     [dirs |-> {Slash, CacheDir, FilesRoot, EnvRoot, CacheX},
      files |-> EmptyFs]}

CachePaths1 == {<<"x">>, <<"a", "/", "x">>}
CachePaths2 == {<<"y">>, <<"a", "/", "y">>}

\* one session, entering the block for the same path again and again
InitCacheLocSeq ==
    /\ pc = "idle"
    /\ \E f \in InitCacheFs \cup InitCacheFsBlocked :
         dirs = f.dirs /\ files = f.files
    /\ InitCallState
    /\ \E p \in CachePaths1 \cup CachePaths2 :
         sess = [s \in {1} |-> Session(p)]

NextCacheLocSeq == CacheLocStep(1)

SpecCacheLocSeq == InitCacheLocSeq /\ [][NextCacheLocSeq]_vars

\* two sessions of one process, caching different files at the same time
InitCacheLoc ==
    /\ pc = "idle"
    /\ \E f \in InitCacheFs \cup InitCacheFsBlocked :
         dirs = f.dirs /\ files = f.files
    /\ InitCallState
    /\ \E p \in CachePaths1, q \in CachePaths2 :
         sess = [s \in {1, 2} |-> IF s = 1 THEN Session(p) ELSE Session(q)]

NextCacheLoc == \E s \in {1, 2} : CacheLocStep(s)

SpecCacheLoc == InitCacheLoc /\ [][NextCacheLoc]_vars

(***************************************************************************)
(* _check_proto on its own: the path is drawn from a bounded set.          *)
(***************************************************************************)
ProtoHeads ==
    {<<>>, SaltScheme, SaltScheme \o SaltScheme,
     <<"s", "a", "l", "t", ":", "/">>, <<"a", "l", "t", ":", "/", "/">>,
     <<"s", "a", "l", "t", "/", "/", ":">>, <<"x">> \o SaltScheme,
     <<"s", "a", "l", "t", ":">>}
ProtoPaths ==
    {h \o t : h \in ProtoHeads, t \in SeqsUpTo({"s", "/", "x"}, MaxSuffix)}

InitProto ==
    /\ pc = "proto"
    /\ \E p \in ProtoPaths :
         /\ path = p
         /\ op = "_check_proto"
         /\ destArg = <<>>
         /\ makedirs = FALSE
         /\ gzip = FALSE
         /\ dest = <<>>
         /\ fn_ = NoHandle
         /\ d_tries = 0
         /\ result = NoResult
         /\ umask = UmaskDefault
         /\ nopen = 0
         /\ nreq = 0
         /\ lastLoc = 0 - 1
         /\ retrying = FALSE
         /\ recv = <<>>
         /\ nempty = 0
         /\ mism = 0
         /\ zeroByte = FALSE
         /\ timedOut = FALSE
         /\ probed = FALSE
         /\ probePath = <<>>
         /\ probeRet = <<>>
         /\ opts = NoOpts
         /\ sess = NoSessions
         /\ gd = NoDirCall
    /\ dirs = {Slash}
    /\ files = EmptyFs

CheckProtoCall ==
    /\ pc = "proto"
    /\ \E c \in {CheckProto(path)} :
         result' = IF c.ok THEN Ret(c.val) ELSE Raise("MinionError")
    /\ pc' = "done"
    /\ UNCHANGED <<op, path, destArg, makedirs, gzip, dest, fn_, d_tries,
                   dirs, files, umask, nopen, nreq, lastLoc, retrying, recv,
                   nempty, mism, zeroByte, timedOut, probed, probePath,
                   probeRet, ext>>

NextProto == CheckProtoCall

SpecProto == InitProto /\ [][NextProto]_vars

(***************************************************************************)
(* Client.file_local_list: the files of the two caches.                    *)
(***************************************************************************)
\* lines 64-67: the directory that is walked
WalkedFrom(d) == IF IsDir(d) THEN d ELSE Dirname(d)

\* lines 60-76: the paths of the files found by os.walk
FileLocalListOf(d) ==
    {q \in DOMAIN files : Dirname(q) \in Walk(WalkedFrom(d))}

\* lines 203-208: sorted(fdest.union(ldest)) holds each path once
FileLocalList(env) ==
    ListOf(SetToBag(FileLocalListOf(PathJoin(FilesRoot, env))
                      \cup FileLocalListOf(LocalRoot)))

FileLocalListCall ==
    \E env \in {Env, Dev} :
        OneStep("file_local_list", env, <<>>, FALSE, Ret(FileLocalList(env)),
                dirs, files, 0)

\* the minion's cache: the two environment directories and localfiles are
\* there or not, each with or without a file x, and cachedir may hold a
\* file of its own
DevRoot == PathJoin(FilesRoot, Dev)
MinionFile == PathJoin(CacheDir, <<"m">>)
InitLocalList ==
    /\ pc = "idle"
    /\ \E roots \in SUBSET {EnvRoot, DevRoot, LocalRoot} :
       \E present \in SUBSET ({PathJoin(r, <<"x">>) : r \in roots}
                                \cup {MinionFile}) :
         /\ dirs = {Slash, CacheDir, FilesRoot} \cup roots
         /\ files = [q \in present |-> OldBytes]
    /\ InitCommon

NextLocalList == FileLocalListCall

SpecLocalList == InitLocalList /\ [][NextLocalList]_vars

(***************************************************************************)
(* Client.get_url.  A URL is what urlparse makes of it: scheme, netloc and *)
(* path.  gd holds the opener installed in urllib2 for the whole process   *)
(* and, for each call, the URL that was opened and the opener in force.    *)
(***************************************************************************)
FirstOf(str, ch) == CHOOSE i \in 1..Len(str) :
                       str[i] = ch /\ \A j \in 1..(i - 1) : str[j] # ch
LastOf(str, ch) == CHOOSE i \in 1..Len(str) :
                      str[i] = ch /\ \A j \in (i + 1)..Len(str) : str[j] # ch
Has(str, ch) == \E i \in 1..Len(str) : str[i] = ch

\* netloc.rsplit('@', 1)[0] of urlparse's username and password
UserInfo(netloc) == SubSeq(netloc, 1, LastOf(netloc, "@") - 1)

\* url_data.username is not None
HasUsername(u) == Has(u.netloc, "@")

\* url_data.username and url_data.password (<<>> for None)
Username(u) ==
    IF ~HasUsername(u) THEN <<>>
    ELSE IF Has(UserInfo(u.netloc), ":")
    THEN SubSeq(UserInfo(u.netloc), 1, FirstOf(UserInfo(u.netloc), ":") - 1)
    ELSE UserInfo(u.netloc)
Password(u) ==
    IF HasUsername(u) /\ Has(UserInfo(u.netloc), ":")
    THEN SubSeq(UserInfo(u.netloc), FirstOf(UserInfo(u.netloc), ":") + 1,
                Len(UserInfo(u.netloc)))
    ELSE <<>>

\* lines 350-351: the URLs whose credentials go to an opener
StripsCredentials(u) ==
    HasUsername(u) /\ u.scheme \in {"http", "https"}

\* lines 352-354 and 361: the URL that is opened
FixedUrl(u) ==
    IF StripsCredentials(u)
    THEN [u EXCEPT !.netloc = SubSeq(u.netloc, FirstOf(u.netloc, "@") + 1,
                                     Len(u.netloc))]
    ELSE u

\* lines 355-359: url_install_opener replaces the opener of the process
InstalledOpener(old, u) ==
    IF StripsCredentials(u)
    THEN [creds |-> TRUE, uri |-> FixedUrl(u), user |-> Username(u),
          password |-> Password(u)]
    ELSE old

\* lines 339-346: the destination in the extrn_files cache
ExtrnSeg == <<"e", "x", "t", "r", "n", "_", "f", "i", "l", "e", "s">>
ExtrnDest(u, env) ==
    PathJoin(PathJoin(PathJoin(PathJoin(CacheDir, ExtrnSeg), env), u.netloc),
             LStrip(u.path, {"/"}))

\* lines 331-349: dest and its directory; tag "open": the URL is opened
UrlTarget(u, d) == IF d # <<>> THEN d ELSE ExtrnDest(u, Env)
UrlDest(u, d, mk) ==
    IF IsDir(Dirname(UrlTarget(u, d)))
    THEN [tag |-> "open", dest |-> UrlTarget(u, d), dirs |-> dirs]
    ELSE IF d # <<>> /\ ~mk
    THEN [tag |-> "empty", dest |-> UrlTarget(u, d), dirs |-> dirs]
    ELSE IF ~MakeDirsOk(dirs, files, Dirname(UrlTarget(u, d)))
    THEN [tag |-> "OSError", dest |-> UrlTarget(u, d), dirs |-> dirs]
    ELSE [tag |-> "open", dest |-> UrlTarget(u, d),
          dirs |-> MakeDirs(dirs, Dirname(UrlTarget(u, d)))]

Urls ==
    [scheme : {"http", "https", "ftp"},
     netloc : {<<"h">>, <<"u", "@", "h">>, <<"u", ":", "p", "@", "h">>},
     path : {<<"/", "x">>}]
\* what url_open meets on the network: the body, an HTTP error whose status
\* is in BaseHTTPServer's table of responses, one whose status is not (429,
\* 451, ...), or no connection
Fetched == {"data", "HTTPError", "HTTPErrorUnlisted", "URLError"}

\* lines 367-373: the error is reported as MinionError; the message of an
\* HTTP error is made with responses[ex.code], a KeyError when the status is
\* not in the table
FetchError(got) ==
    IF got = "HTTPErrorUnlisted" THEN Raise("KeyError")
    ELSE Raise("MinionError")

\* get_url(url, dest, makedirs, env) for a URL that is not a salt:// one,
\* lines 332-361: dest and its directory, up to the call of url_open (a
\* salt:// URL is handed to get_file on line 331, see CacheFileCall)
UrlOpen(o, u, d, mk) ==
    /\ pc \in {"idle", "done"}
    /\ \E t \in {UrlDest(u, d, mk)} :
         /\ op' = o
         /\ destArg' = d
         /\ makedirs' = mk
         /\ dest' = t.dest
         /\ dirs' = t.dirs
         /\ pc' = IF t.tag = "open" THEN "url" ELSE "done"
         /\ result' = IF t.tag = "open" THEN NoResult
                      ELSE IF t.tag = "empty" THEN Ret(<<>>)
                      ELSE Raise("OSError")
    /\ UNCHANGED <<path, gzip, fn_, d_tries, files, umask, nopen, nreq,
                   lastLoc, retrying, recv, nempty, mism, zeroByte, timedOut,
                   probed, probePath, probeRet, opts, sess>>

\* the body of the URL
UrlBody == <<1>>

\* lines 362-364 and 367-373: url_open has answered.  An error is reported;
\* with the body at hand dest is opened 'wb', which creates or empties it
UrlReply(got) ==
    /\ pc = "url"
    /\ \E opened \in {got = "data" /\ CanOpenWrite(dirs, files, dest)} :
         /\ files' = IF opened THEN OpenWrite(files, dest) ELSE files
         /\ result' = IF got # "data" THEN FetchError(got)
                      ELSE IF opened THEN result
                      ELSE Raise("IOError")
         /\ pc' = IF opened THEN "copy" ELSE "done"
    /\ UNCHANGED <<op, path, destArg, makedirs, gzip, dest, fn_, d_tries,
                   dirs, umask, nopen, nreq, lastLoc, retrying, recv, nempty,
                   mism, zeroByte, timedOut, probed, probePath, probeRet,
                   opts, sess>>

\* what copyfileobj has written when it ends: all of the body, or the chunks
\* read before the connection broke
UrlParts == {SubSeq(UrlBody, 1, n) : n \in 0..Len(UrlBody)}

\* lines 365-366: shutil.copyfileobj reads the body and writes it to dest,
\* or the connection breaks while it reads: neither HTTPError nor URLError,
\* the error leaves get_url as it is, and leaving the with-block closes dest
\* with the bytes part that were written before
UrlCopy(ok, part) ==
    /\ pc = "copy"
    /\ files' = WithFile(files, dest, IF ok THEN UrlBody ELSE part)
    /\ result' = IF ok THEN Ret(dest) ELSE Raise("socket.error")
    /\ pc' = "done"
    /\ UNCHANGED <<op, path, destArg, makedirs, gzip, dest, fn_, d_tries,
                   dirs, umask, nopen, nreq, lastLoc, retrying, recv, nempty,
                   mism, zeroByte, timedOut, probed, probePath, probeRet,
                   opts, sess>>

\* get_url is called: the opener is installed before the URL is opened
GetUrlCall ==
    /\ gd.stage = "url"
    /\ Len(gd.calls) < MaxCalls
    /\ \E u \in Urls, d \in Dests, mk \in BOOLEAN :
         /\ UrlOpen("get_url", u, d, mk)
         /\ gd' = IF UrlDest(u, d, mk).tag = "open"
                  THEN [gd EXCEPT
                          !.opener = InstalledOpener(gd.opener, u),
                          !.calls = Append(@, [url |-> u,
                                               opened |-> FixedUrl(u),
                                               via |-> InstalledOpener(
                                                           gd.opener, u)])]
                  ELSE gd

\* the network answers the call that waits in url_open
GetUrlReply ==
    /\ \E got \in Fetched : UrlReply(got)
    /\ UNCHANGED gd

\* the body has been read, or reading it has failed
GetUrlCopy ==
    /\ \E ok \in BOOLEAN, part \in UrlParts : UrlCopy(ok, part)
    /\ UNCHANGED gd

InitUrl ==
    /\ pc = "idle"
    /\ \E f \in {g \in InitFs : g.files = EmptyFs} :
         dirs = f.dirs /\ files = f.files
    /\ InitLocals
    /\ opts = NoOpts
    /\ sess = NoSessions
    /\ gd = [stage |-> "url", opener |-> [creds |-> FALSE], calls |-> <<>>]

NextUrl ==
    \/ GetUrlCall
    \/ GetUrlReply
    \/ GetUrlCopy

SpecUrl == InitUrl /\ [][NextUrl]_vars

(***************************************************************************)
(* cache_files, cache_master and get_state: loops of cache_file calls.     *)
(* gd holds the call: the paths still to cache (todo), the list built so   *)
(* far (ret) and what the call returns (out).  Each cache_file call runs   *)
(* through the request loop of get_file.                                   *)
(***************************************************************************)
SaltSubX == SaltScheme \o <<"a", "/", "x">>

\* str.split(',')
RECURSIVE SplitComma(_)
SplitComma(str) ==
    IF ~Has(str, ",") THEN << str >>
    ELSE << SubSeq(str, 1, FirstOf(str, ",") - 1) >>
         \o SplitComma(SubSeq(str, FirstOf(str, ",") + 1, Len(str)))

\* lines 124-125: paths is a list, or a string of comma-separated paths
CacheFilesArgs ==
    {[str |-> FALSE, val |-> << >>],
     [str |-> FALSE, val |-> << SaltX >>],
     [str |-> FALSE, val |-> << SaltX, SaltSubX >>],
     [str |-> TRUE, val |-> SaltX \o <<",">> \o SaltSubX]}
PathsOf(a) == IF a.str THEN SplitComma(a.val) ELSE a.val

\* what file_list answers cache_master with
MasterLists == {<< >>, << <<"x">> >>, << <<"x">>, <<"a", "/", "x">> >>}

\* lines 259-262: '.' becomes '/', then <sls>.sls and <sls>/init.sls
SlsNames == {<<"x">>, <<"a", ".", "x">>}
SlsPath(sls) == [i \in 1..Len(sls) |-> IF sls[i] = "." THEN "/" ELSE sls[i]]
GetStatePaths(sls) ==
    << SaltScheme \o SlsPath(sls) \o <<".", "s", "l", "s">>,
       <<"s", "a", "l", "t", ":", "/">> \o Slash \o SlsPath(sls) \o Slash
           \o <<"i", "n", "i", "t", ".", "s", "l", "s">> >>

NoLoop ==
    [stage |-> "many", fn |-> "none", todo |-> << >>, ret |-> << >>,
     out |-> NoResult]

\* the outer call is entered: nothing of the request loop has run yet
LoopEntered(o, todo, emptyOut) ==
    /\ pc = "idle"
    /\ gd.stage = "many"
    /\ gd.fn = "none"
    /\ op' = o
    /\ gd' = [gd EXCEPT !.fn = o, !.todo = todo,
                        !.out = IF todo = << >> THEN emptyOut ELSE NoResult]
    /\ UNCHANGED <<pc, path, destArg, makedirs, gzip, dest, fn_, d_tries,
                   result, dirs, files, umask, nopen, lastLoc, retrying,
                   recv, nempty, mism, zeroByte, probed, probePath, probeRet,
                   opts, sess>>

\* cache_files(paths, env), lines 118-128
CacheFilesCall ==
    /\ \E a \in CacheFilesArgs :
         LoopEntered("cache_files", PathsOf(a), Ret(ListOf(<< >>)))
    /\ UNCHANGED <<nreq, timedOut>>

\* cache_master(env), lines 130-137: file_list is asked first, and its
\* request (line 680) is in flight
CacheMasterCall ==
    /\ pc = "idle"
    /\ gd.stage = "many"
    /\ gd.fn = "none"
    /\ op' = "cache_master"
    /\ gd' = [gd EXCEPT !.fn = "cache_master"]
    /\ nreq' = nreq + 1
    /\ pc' = "listing"
    /\ UNCHANGED <<path, destArg, makedirs, gzip, dest, fn_, d_tries, result,
                   dirs, files, umask, nopen, lastLoc, retrying, recv, nempty,
                   mism, zeroByte, timedOut, probed, probePath, probeRet,
                   opts, sess>>

\* lines 681-685 and 135: the list has come, or the request has timed out
\* and file_list returns '', over which the loop does not run
CacheMasterReply ==
    /\ pc = "listing"
    /\ gd.stage = "many"
    /\ gd.fn = "cache_master"
    /\ \E to \in BOOLEAN, l \in MasterLists :
         /\ to => l = << >>
         /\ timedOut' = to
         /\ gd' = [gd EXCEPT !.todo = [i \in 1..Len(l) |-> SaltScheme \o l[i]],
                             !.out = IF l = << >> THEN Ret(ListOf(<< >>))
                                     ELSE NoResult]
    /\ pc' = "idle"
    /\ UNCHANGED <<op, path, destArg, makedirs, gzip, dest, fn_, d_tries,
                   result, dirs, files, umask, nopen, nreq, lastLoc, retrying,
                   recv, nempty, mism, zeroByte, probed, probePath, probeRet,
                   opts, sess>>

\* get_state(sls, env), lines 254-266
GetStateCall ==
    /\ \E sls \in SlsNames :
         LoopEntered("get_state", GetStatePaths(sls), Ret(EmptyDict))
    /\ UNCHANGED <<nreq, timedOut>>

\* lines 127, 136 and 264: cache_file is called for the next path
LoopCacheFile ==
    /\ gd.stage = "many"
    /\ gd.todo # << >>
    /\ ~fn_.open
    /\ Enter(op, Head(gd.todo), << >>, TRUE, FALSE)

\* what the loop makes of the value cache_file returned: get_state returns
\* at the first path that was cached, the other two append to ret
Collected1(g, p, v) ==
    IF g.fn = "get_state"
    THEN IF v # << >>
         THEN [g EXCEPT !.todo = << >>,
                        !.out = Ret([source |-> p, dest |-> v])]
         ELSE [g EXCEPT !.todo = Tail(@),
                        !.out = IF Tail(g.todo) = << >> THEN Ret(EmptyDict)
                                ELSE NoResult]
    ELSE [g EXCEPT !.todo = Tail(@), !.ret = Append(@, v),
                   !.out = IF Tail(g.todo) = << >>
                           THEN Ret(ListOf(Append(g.ret, v)))
                           ELSE NoResult]

\* cache_file has returned or raised: an exception leaves the outer call, a
\* value goes to the loop.  A handle that get_file did not close stays open
\* for as long as its frame is referred to
LoopCollect ==
    /\ gd.stage = "many"
    /\ pc = "done"
    /\ gd.todo # << >>
    /\ gd' = IF result.tag # "ret"
             THEN [gd EXCEPT !.todo = << >>, !.out = result]
             ELSE Collected1(gd, Head(gd.todo), result.val)
    /\ pc' = "idle"
    /\ result' = NoResult
    /\ lastLoc' = 0 - 1
    /\ retrying' = FALSE
    /\ recv' = << >>
    /\ nempty' = 0
    /\ mism' = 0
    /\ zeroByte' = FALSE
    /\ timedOut' = FALSE
    /\ UNCHANGED <<op, path, destArg, makedirs, gzip, dest, fn_, d_tries, dirs,
                   files, umask, nopen, nreq, probed, probePath, probeRet,
                   opts, sess>>

\* the frame of a get_file that was left with its handle open is released:
\* at any time once it has returned, and once the exception is let go of
\* when it has raised.  The file object is finalised, which writes its
\* buffer out
LoopFinalise ==
    /\ gd.stage = "many"
    /\ pc = "idle" \/ (pc = "done" /\ result.tag = "ret")
    /\ fn_.open
    /\ files' = CloseFiles(files, fn_)
    /\ fn_' = NoHandle
    /\ nopen' = 0
    /\ UNCHANGED <<pc, op, path, destArg, makedirs, gzip, dest, d_tries,
                   result, dirs, umask, nreq, lastLoc, retrying, recv, nempty,
                   mism, zeroByte, timedOut, probed, probePath, probeRet,
                   opts, sess, gd>>

InitMany ==
    /\ pc = "idle"
    /\ \E f \in {g \in InitFs : g.files = EmptyFs /\ DestDir \in g.dirs
                                  /\ CacheX \notin g.dirs} :
         dirs = f.dirs /\ files = f.files
    /\ InitLocals
    /\ opts = NoOpts
    /\ sess = NoSessions
    /\ gd = NoLoop

NextMany ==
    \/ CacheFilesCall
    \/ CacheMasterCall
    \/ CacheMasterReply
    \/ GetStateCall
    \/ LoopCacheFile
    \/ LoopCollect
    \/ LoopFinalise
    \/ ReqTimeout
    \/ ReplyData
    \/ ReplyEmpty

SpecMany == InitMany /\ [][NextMany]_vars

(***************************************************************************)
(* get_template: cache the source, render it, move the output to dest.     *)
(***************************************************************************)
\* salt.utils.templates.TEMPLATE_REGISTRY: the engines that can render
TemplateRegistry == {"jinja", "mako"}
Templates == {"jinja", "nope"}

\* the rendered output: a temporary file the engine leaves in data['data']
TmpDir == <<"/", "t">>
TmpOut == <<"/", "t", "/", "o">>
RenderedBytes == <<1, 2>>

TemplateUrls ==
    [scheme : {"salt", "http"}, netloc : {<<"h">>}, path : {<<"/", "x">>}]

\* the url as the string handed to cache_file
UrlString(u) == SaltScheme \o u.netloc \o u.path

\* what cache_file has returned or raised (line 389) and the disk it left
Cached == [res |-> result, dirs |-> dirs, files |-> files]

\* the engine is taken to have rendered whatever it was given
AlwaysRendered(c, template, rendered) == FALSE

\* lines 390-407: '' unless the source is cached, the engine is registered
\* and rendering succeeded
NothingRendered(c, template, rendered) ==
    \/ ~(IsFileIn(c.files, c.res.val) \/ IsDirIn(c.dirs, c.res.val))
    \/ template \notin TemplateRegistry
    \/ ~rendered

\* get_template, lines 390-407: what follows cache_file.  An exception of
\* cache_file leaves get_template as it is; a source that was rendered
\* leaves the output in TmpOut
GetTemplate(c, template, rendered) ==
    IF c.res.tag # "ret" THEN c
    ELSE IF NothingRendered(c, template, rendered)
    THEN [c EXCEPT !.res = Ret(<<>>)]
    ELSE [c EXCEPT !.files = WithFile(@, TmpOut, RenderedBytes)]

\* salt.utils.safe_rm(p), line 422: the file is removed
SafeRm(fs, p) == Without(fs, {p})

\* os.path.basename(p)
Basename(p) == SubSeq(p, LastOf(p, "/") + 1, Len(p))

\* shutil.move(src, dst): a dst that is a directory takes src under its
\* own name, and the move fails when that name is taken
RealDst(ds, src, dst) ==
    IF IsDirIn(ds, dst) THEN PathJoin(dst, Basename(src)) ELSE dst
MoveOk(ds, fs, src, dst) ==
    IsDirIn(ds, dst)
    => /\ ~IsFileIn(fs, RealDst(ds, src, dst))
       /\ ~IsDirIn(ds, RealDst(ds, src, dst))
Move(ds, fs, src, dst) ==
    WithFile(Without(fs, {src}), RealDst(ds, src, dst), fs[src])

\* lines 408-425, the output being in TmpOut: dest, its directory and the
\* move
PlaceRendered(c, u, d, mk) ==
    IF ~IsDirIn(c.dirs, Dirname(UrlTarget(u, d))) /\ ~mk
    THEN [res |-> Ret(<<>>), dirs |-> c.dirs, files |-> SafeRm(c.files, TmpOut)]
    ELSE IF /\ ~IsDirIn(c.dirs, Dirname(UrlTarget(u, d)))
            /\ ~MakeDirsOk(c.dirs, c.files, Dirname(UrlTarget(u, d)))
    THEN [res |-> Raise("OSError"), dirs |-> c.dirs, files |-> c.files]
    ELSE IF ~MoveOk(c.dirs, c.files, TmpOut, UrlTarget(u, d))
    THEN [res |-> Raise("Error"),
          dirs |-> MakeDirs(c.dirs, Dirname(UrlTarget(u, d))),
          files |-> c.files]
    ELSE [res |-> Ret(UrlTarget(u, d)),
          dirs |-> MakeDirs(c.dirs, Dirname(UrlTarget(u, d))),
          files |-> Move(c.dirs, c.files, TmpOut, UrlTarget(u, d))]

\* get_template(url, dest, template, makedirs, env), lines 375-389:
\* cache_file(url, env) is get_url(url, '', True, env), which hands a
\* salt:// URL to get_file and opens any other URL itself
GetTemplateCall ==
    /\ pc = "idle"
    /\ gd.stage = "template"
    /\ gd.phase = "none"
    /\ \E u \in TemplateUrls, template \in Templates, d \in Dests,
          mk \in BOOLEAN :
         /\ gd' = [gd EXCEPT !.phase = "cache", !.url = u,
                             !.template = template, !.dest = d,
                             !.makedirs = mk]
         /\ IF u.scheme = "salt"
            THEN /\ EnterLocals("get_template", UrlString(u), <<>>, TRUE,
                                FALSE)
                 /\ UNCHANGED <<opts, sess>>
            ELSE UrlOpen("get_template", u, <<>>, TRUE)

\* lines 390-407: cache_file is over; the engine renders the source into
\* TmpOut, or get_template ends
GetTemplateRender ==
    /\ pc = "done"
    /\ gd.stage = "template"
    /\ gd.phase = "cache"
    /\ \E rendered \in BOOLEAN :
       \E t \in {GetTemplate(Cached, gd.template, rendered)} :
         /\ result' = t.res
         /\ files' = t.files
         /\ gd' = [gd EXCEPT !.phase = IF TmpOut \in DOMAIN t.files
                                       THEN "rendered" ELSE "finished",
                             !.sfn = result, !.rendered = rendered]
    /\ UNCHANGED <<pc, op, path, destArg, makedirs, gzip, dest, fn_, d_tries,
                   dirs, umask, nopen, nreq, lastLoc, retrying, recv, nempty,
                   mism, zeroByte, timedOut, probed, probePath, probeRet,
                   opts, sess>>

\* lines 408-425: the output is moved to dest, or removed
GetTemplatePlace ==
    /\ pc = "done"
    /\ gd.stage = "template"
    /\ gd.phase = "rendered"
    /\ \E t \in {PlaceRendered(Cached, gd.url, gd.dest, gd.makedirs)} :
         /\ result' = t.res
         /\ dirs' = t.dirs
         /\ files' = t.files
    /\ gd' = [gd EXCEPT !.phase = "finished"]
    /\ UNCHANGED <<pc, op, path, destArg, makedirs, gzip, dest, fn_, d_tries,
                   umask, nopen, nreq, lastLoc, retrying, recv, nempty, mism,
                   zeroByte, timedOut, probed, probePath, probeRet, opts,
                   sess>>

\* the name the output has in a dest that is a directory
DestTaken == PathJoin(DestFile, Basename(TmpOut))

\* the cache is in order; dest, when given, is nothing, a file or a
\* directory, which may hold a file of the output's name
InitTemplate ==
    /\ pc = "idle"
    /\ \E f \in {g \in InitFs : /\ ~IsFileIn(g.files, EnvRoot)
                                /\ CacheX \notin g.dirs},
          taken \in BOOLEAN :
         /\ taken => DestFile \in f.dirs
         /\ dirs = f.dirs \cup {TmpDir}
         /\ files = IF taken THEN WithFile(f.files, DestTaken, OldBytes)
                    ELSE f.files
    /\ InitLocals
    /\ opts = NoOpts
    /\ sess = NoSessions
    /\ gd = [stage |-> "template", phase |-> "none", url |-> <<>>,
             template |-> "", dest |-> <<>>, makedirs |-> FALSE,
             sfn |-> NoResult, rendered |-> FALSE]

NextTemplate ==
    \/ GetTemplateCall
    \/ ReqTimeout
    \/ ReplyData
    \/ ReplyEmpty
    \/ GetUrlReply
    \/ GetUrlCopy
    \/ GetTemplateRender
    \/ GetTemplatePlace

SpecTemplate == InitTemplate /\ [][NextTemplate]_vars

(***************************************************************************)
(* The state modules mount, pecl and tomcat.  The functions of __salt__    *)
(* they call are the minion's execution modules: what these return is an   *)
(* input of the call, what they do to the system is kept in gd.sys, and    *)
(* every call made is appended to gd.calls.                                *)
(***************************************************************************)
StateRet(r, ch) == [result |-> r, changes |-> ch]
Call(fn, arg) == [fn |-> fn, arg |-> arg]
Outs == {"OK", "FAIL"}

\* what mount.set_fstab reports for the entry the fstab holds
FstabEntries == {"same", "other", "absent", "nofile"}
SetFstab(entry) ==
    IF entry = "same" THEN "present"
    ELSE IF entry = "other" THEN "change"
    ELSE IF entry = "absent" THEN "new"
    ELSE "bad config"
Written(entry) == IF entry \in {"other", "absent"} THEN "same" ELSE entry

\* mount.mounted, lines 100-152: the fstab entry of a mount that is active
MountPersist(test, persist, active, entry, calls, ch) ==
    IF ~(persist /\ active)
    THEN [ret |-> StateRet("True", ch), calls |-> calls, active |-> active,
          entry |-> entry]
    ELSE IF test
    THEN [ret |-> StateRet(IF SetFstab(entry) = "present" THEN "True"
                           ELSE IF SetFstab(entry) \in {"new", "change"}
                           THEN "None"
                           ELSE "False", ch),
          calls |-> Append(calls, Call("mount.set_fstab", "test=True")),
          active |-> active, entry |-> entry]
    ELSE [ret |-> StateRet(IF SetFstab(entry) = "bad config" THEN "False"
                           ELSE "True",
                           IF SetFstab(entry) \in {"new", "change"}
                           THEN ch \cup {"persist"} ELSE ch),
          calls |-> Append(calls, Call("mount.set_fstab", "")),
          active |-> active, entry |-> Written(entry)]

\* mount.mounted(name, device, fstype, persist=persist), lines 22-154:
\* active says whether name is among mount.active(), out is what mount.mount
\* returns (True or an error text), seen whether name is among
\* mount.active() after it
Mounted(test, persist, active, entry, out, seen) ==
    IF active
    THEN MountPersist(test, persist, TRUE, entry,
                      << Call("mount.active", "") >>, {})
    ELSE IF test
    THEN [ret |-> StateRet("None", {}),
          calls |-> << Call("mount.active", "") >>, active |-> FALSE,
          entry |-> entry]
    ELSE IF out = "FAIL"
    THEN [ret |-> StateRet("False", {}),
          calls |-> << Call("mount.active", ""), Call("mount.mount", ""),
                       Call("mount.active", "") >>,
          active |-> seen, entry |-> entry]
    ELSE MountPersist(test, persist, seen, entry,
                      << Call("mount.active", ""), Call("mount.mount", ""),
                         Call("mount.active", "") >>,
                      IF seen THEN {"mount"} ELSE {})

\* mount.swap, lines 193-226: the fstab entry of the swap device; ret is
\* what lines 172-191 made of the result
SwapPersist(test, persist, entry, keyed, ret, calls) ==
    IF ~persist THEN [ret |-> ret, calls |-> calls, entry |-> entry]
    ELSE IF test
    THEN [ret |-> IF keyed THEN ret ELSE [ret EXCEPT !.result = "None"],
          calls |-> Append(calls, Call("mount.fstab", "")), entry |-> entry]
    ELSE IF entry = "same"
    THEN [ret |-> ret, calls |-> Append(calls, Call("mount.fstab", "")),
          entry |-> entry]
    ELSE [ret |-> StateRet(IF SetFstab(entry) = "bad config" THEN "False"
                           ELSE ret.result,
                           IF SetFstab(entry) \in {"new", "change"}
                           THEN ret.changes \cup {"persist"}
                           ELSE ret.changes),
          calls |-> calls \o << Call("mount.fstab", ""),
                                Call("mount.set_fstab", "") >>,
          entry |-> Written(entry)]

\* mount.swap(name, persist), lines 157-226: on says whether name is among
\* mount.swaps(), seen whether it is after mount.swapon
Swap(test, persist, on, entry, keyed, seen) ==
    IF on
    THEN [on |-> TRUE] @@
         SwapPersist(test, persist, entry, keyed, StateRet("True", {}),
                     << Call("mount.swaps", "") >>)
    ELSE IF test
    THEN [on |-> FALSE] @@
         SwapPersist(test, persist, entry, keyed, StateRet("None", {}),
                     << Call("mount.swaps", "") >>)
    ELSE [on |-> seen] @@
         SwapPersist(test, persist, entry, keyed,
                     IF seen THEN StateRet("True", {"swap"})
                     ELSE StateRet("False", {}),
                     << Call("mount.swaps", ""), Call("mount.swapon", ""),
                        Call("mount.swaps", "") >>)

\* pecl.installed(name, version), lines 29-71: has is the version pecl.list
\* gives for name ("absent": none), ok what pecl.install returns
PeclVersions == {"v1", "v2"}
PeclInstalled(test, has, version, ok) ==
    IF has # "absent" /\ (version = "none" \/ version = has)
    THEN [ret |-> StateRet("True", {}), calls |-> << Call("pecl.list", "") >>,
          has |-> has]
    ELSE IF test
    THEN [ret |-> StateRet("None", {}), calls |-> << Call("pecl.list", "") >>,
          has |-> has]
    ELSE IF ok
    THEN [ret |-> StateRet("True", {"name"}),
          calls |-> << Call("pecl.list", ""), Call("pecl.install", version) >>,
          has |-> IF version = "none" THEN "v2" ELSE version]
    ELSE [ret |-> StateRet("False", {}),
          calls |-> << Call("pecl.list", ""), Call("pecl.install", version) >>,
          has |-> has]

\* pecl.removed(name), lines 74-98
PeclRemoved(test, has, ok) ==
    IF has = "absent"
    THEN [ret |-> StateRet("True", {}), calls |-> << Call("pecl.list", "") >>,
          has |-> has]
    ELSE IF test
    THEN [ret |-> StateRet("None", {}), calls |-> << Call("pecl.list", "") >>,
          has |-> has]
    ELSE IF ok
    THEN [ret |-> StateRet("True", {"name"}),
          calls |-> << Call("pecl.list", ""), Call("pecl.uninstall", "") >>,
          has |-> "absent"]
    ELSE [ret |-> StateRet("False", {}),
          calls |-> << Call("pecl.list", ""), Call("pecl.uninstall", "") >>,
          has |-> has]

\* what tomcat.ls tells of the context path: nothing deployed, the version
\* of the war (running or stopped), or another version
Webapps == {"absent", "running", "stopped", "other"}

\* tomcat.war_deployed, lines 89-105: the changes announced
WarChanges(app) ==
    IF app = "other" THEN {"undeploy", "deploy"}
    ELSE IF app = "stopped" THEN {"start"}
    ELSE IF app = "running" THEN {}
    ELSE {"deploy"}

\* the undeploy is skipped
NoUndeploy(app) == FALSE

\* lines 90-92: undeploy is set when another version is deployed
Undeploy(app) == app = "other"

\* tomcat.war_deployed, lines 87-117: what the call does once tomcat.ls has
\* told what is deployed.  It returns at once when the version is deployed
\* and running (line 102) and in test mode (lines 108-110); otherwise its
\* first call is tomcat.start, tomcat.undeploy or tomcat.deploy_war
WarDeployed(test, app) ==
    IF app = "running" THEN "same"
    ELSE IF test THEN "test"
    ELSE IF app = "stopped" THEN "start"
    ELSE IF Undeploy(app) THEN "undeploy"
    ELSE "deploy"

\* what a call of a state function leaves alone
StateFrame ==
    UNCHANGED <<path, destArg, makedirs, gzip, dest, fn_, d_tries, dirs,
                files, umask, nopen, nreq, lastLoc, retrying, recv, nempty,
                mism, zeroByte, timedOut, probed, probePath, probeRet, opts,
                sess>>

StateIdle == pc = "idle" /\ gd.stage = "state"

\* the test flag is taken as unset
OptsTestUnset(g) == FALSE

\* __opts__['test']
OptsTest(g) == g.test

MountedCall ==
    /\ StateIdle
    /\ \E persist \in BOOLEAN, out \in Outs, seen \in BOOLEAN :
       \E m \in {Mounted(OptsTest(gd), persist, gd.sys.active, gd.sys.fstab, out,
                         seen)} :
         /\ result' = Ret(m.ret)
         /\ gd' = [gd EXCEPT !.calls = m.calls, !.sys.active = m.active,
                             !.sys.fstab = m.entry, !.was = gd.sys]
    /\ op' = "mount.mounted"
    /\ pc' = "done"
    /\ StateFrame

SwapCall ==
    /\ StateIdle
    /\ \E persist \in BOOLEAN, keyed \in BOOLEAN, seen \in BOOLEAN :
       \E m \in {Swap(OptsTest(gd), persist, gd.sys.swapOn, gd.sys.swapFstab,
                      keyed, seen)} :
         /\ result' = Ret(m.ret)
         /\ gd' = [gd EXCEPT !.calls = m.calls, !.sys.swapOn = m.on,
                             !.sys.swapFstab = m.entry, !.was = gd.sys]
    /\ op' = "mount.swap"
    /\ pc' = "done"
    /\ StateFrame

PeclInstalledCall ==
    /\ StateIdle
    /\ \E version \in {"none"} \cup PeclVersions, ok \in BOOLEAN :
       \E m \in {PeclInstalled(OptsTest(gd), gd.sys.pecl, version, ok)} :
         /\ result' = Ret(m.ret)
         /\ gd' = [gd EXCEPT !.calls = m.calls, !.sys.pecl = m.has,
                             !.was = gd.sys]
    /\ op' = "pecl.installed"
    /\ pc' = "done"
    /\ StateFrame

PeclRemovedCall ==
    /\ StateIdle
    /\ \E ok \in BOOLEAN :
       \E m \in {PeclRemoved(OptsTest(gd), gd.sys.pecl, ok)} :
         /\ result' = Ret(m.ret)
         /\ gd' = [gd EXCEPT !.calls = m.calls, !.sys.pecl = m.has,
                             !.was = gd.sys]
    /\ op' = "pecl.removed"
    /\ pc' = "done"
    /\ StateFrame

\* tomcat.war_deployed(name, war), lines 49-117: tomcat.ls is asked and the
\* call returns, or goes on to its first call that changes the server
WarDeployedCall ==
    /\ StateIdle
    /\ \E w \in {WarDeployed(OptsTest(gd), gd.sys.webapp)} :
         /\ result' = IF w = "same" THEN Ret(StateRet("True", {}))
                      ELSE IF w = "test"
                      THEN Ret(StateRet("None", WarChanges(gd.sys.webapp)))
                      ELSE NoResult
         /\ pc' = IF w \in {"same", "test"} THEN "done" ELSE w
    /\ gd' = [gd EXCEPT !.calls = << Call("tomcat.ls", "") >>,
                        !.was = gd.sys]
    /\ op' = "tomcat.war_deployed"
    /\ StateFrame

\* lines 113-117: tomcat.start has answered
WarStart ==
    /\ gd.stage = "state"
    /\ pc = "start"
    /\ \E st \in Outs :
         /\ gd' = [gd EXCEPT !.calls = Append(@, Call("tomcat.start", st)),
                             !.sys.webapp = IF st = "OK" THEN "running"
                                            ELSE @]
         /\ result' = Ret(StateRet(IF st = "OK" THEN "True" ELSE "False",
                                   WarChanges(gd.was.webapp)))
    /\ pc' = "done"
    /\ UNCHANGED op
    /\ StateFrame

\* lines 120-125: tomcat.undeploy has answered.  FAIL ends the call; after
\* any other answer the context path is empty and tomcat.deploy_war is
\* called
WarUndeploy ==
    /\ gd.stage = "state"
    /\ pc = "undeploy"
    /\ \E un \in Outs :
         /\ gd' = [gd EXCEPT !.calls = Append(@, Call("tomcat.undeploy", un)),
                             !.sys.webapp = IF un = "FAIL" THEN @
                                            ELSE "absent"]
         /\ result' = IF un = "FAIL"
                      THEN Ret(StateRet("False", WarChanges(gd.was.webapp)))
                      ELSE result
         /\ pc' = IF un = "FAIL" THEN "done" ELSE "deploy"
    /\ UNCHANGED op
    /\ StateFrame

\* lines 128-139: tomcat.deploy_war has answered.  After OK the war is
\* deployed and tomcat.ls is asked for the comment (line 133); any other
\* answer ends the call
WarDeployWar ==
    /\ gd.stage = "state"
    /\ pc = "deploy"
    /\ \E dep \in Outs :
         /\ gd' = [gd EXCEPT
                     !.calls = Append(@, Call("tomcat.deploy_war", dep)),
                     !.sys.webapp = IF dep = "OK" THEN "running" ELSE @]
         /\ result' = IF dep = "OK" THEN result
                      ELSE Ret(StateRet("False", WarChanges(gd.was.webapp)
                                                   \ {"deploy"}))
         /\ pc' = IF dep = "OK" THEN "ls" ELSE "done"
    /\ UNCHANGED op
    /\ StateFrame

\* lines 133-139: the tomcat.ls of line 133 has answered.  listed says
\* whether the context path is a key of the answer: its entry becomes the
\* comment, and without it the subscript raises KeyError
WarLs ==
    /\ gd.stage = "state"
    /\ pc = "ls"
    /\ \E listed \in BOOLEAN :
         /\ gd' = [gd EXCEPT
                     !.calls = Append(@, Call("tomcat.ls",
                                              IF listed THEN "" ELSE "{}"))]
         /\ result' = IF listed
                      THEN Ret(StateRet("True", WarChanges(gd.was.webapp)))
                      ELSE Raise("KeyError")
    /\ pc' = "done"
    /\ UNCHANGED op
    /\ StateFrame

Systems ==
    [active : BOOLEAN, fstab : FstabEntries, swapOn : BOOLEAN,
     swapFstab : FstabEntries, pecl : {"absent"} \cup PeclVersions,
     webapp : Webapps]

InitStates ==
    /\ pc = "idle"
    /\ dirs = {Slash}
    /\ files = EmptyFs
    /\ InitLocals
    /\ opts = NoOpts
    /\ sess = NoSessions
    /\ \E t \in BOOLEAN, y \in Systems :
         gd = [stage |-> "state", test |-> t, sys |-> y, was |-> y,
               calls |-> << >>]

NextStates ==
    \/ MountedCall
    \/ SwapCall
    \/ PeclInstalledCall
    \/ PeclRemovedCall
    \/ WarDeployedCall
    \/ WarStart
    \/ WarUndeploy
    \/ WarDeployWar
    \/ WarLs

SpecStates == InitStates /\ [][NextStates]_vars

(***************************************************************************)
(* Two get_file calls for the same path and the same destination, running  *)
(* at the same time (two threads or two processes of one minion).  Each    *)
(* call has its locals in sess; the file at dest is shared.  The master    *)
(* answers every request from its file gd.master.                          *)
(***************************************************************************)
Callers == {1, 2}
Masters == SeqsUpTo(Bytes, MaxLen)

\* the master's _serve_file: the chunk of its file that starts at loc
Serve(master, loc) ==
    IF loc >= Len(master) THEN <<>>
    ELSE SubSeq(master, loc + 1,
                IF loc + MaxChunk < Len(master) THEN loc + MaxChunk
                ELSE Len(master))

\* bytes written at offset off of a file that holds old; a write of no
\* bytes leaves the file as it is
WriteAt(old, off, b) ==
    IF b = <<>> THEN old ELSE
    [i \in 1..(IF Len(old) > off + Len(b) THEN Len(old) ELSE off + Len(b))
       |-> IF i > off /\ i <= off + Len(b) THEN b[i - off]
           ELSE IF i <= Len(old) THEN old[i] ELSE 0]

Caller ==
    [pc |-> "idle", open |-> FALSE, off |-> 0, buf |-> <<>>, loc |-> 0,
     sent |-> <<>>, d_tries |-> 0, timedOut |-> FALSE, result |-> NoResult]

\* every request asks for the start of the file
HandleAtStart(h) == 0

\* line 622: fn_.tell() of the caller's own handle, the bytes it has written
\* out and the bytes in its buffer
HandleTell(h) == h.off + Len(h.buf)

\* the file once the caller's handle has written its buffer out
Flushed(fs, h) ==
    WithFile(fs, DestFile, WriteAt(fs[DestFile], h.off, h.buf))

\* the reply that ends the file: no data, and the digest of the master's
\* file when the master prompts a verification
EndReplies ==
    {[hsum |-> h, hash_type |-> "md5"] :
       h \in {0 - 1, Digest("md5", gd.master)}}

ConcurrentFrame ==
    UNCHANGED <<pc, op, path, destArg, makedirs, gzip, dest, fn_, d_tries,
                result, dirs, umask, nopen, nreq, lastLoc, retrying, recv,
                nempty, mism, zeroByte, timedOut, probed, probePath,
                probeRet, opts, gd>>

\* lines 609-617: dest is given and its directory is there; the file is
\* opened 'wb+', which empties it
CEnter(s) ==
    /\ sess[s].pc = "idle"
    /\ files' = OpenWrite(files, DestFile)
    /\ sess' = [sess EXCEPT ![s].pc = "send", ![s].open = TRUE]
    /\ ConcurrentFrame

\* lines 619-629: the request is sent
CSend(s) ==
    /\ sess[s].pc = "send"
    /\ sess' = [sess EXCEPT ![s].pc = "wait",
                            ![s].loc = HandleTell(sess[s]),
                            ![s].sent = Append(@, HandleTell(sess[s]))]
    /\ UNCHANGED files
    /\ ConcurrentFrame

\* lines 630-631: the request times out and the call returns '', its handle
\* left open
CTimeout(s) ==
    /\ sess[s].pc = "wait"
    /\ sess' = [sess EXCEPT ![s].pc = "done", ![s].timedOut = TRUE,
                            ![s].result = TimeoutReturn]
    /\ UNCHANGED files
    /\ ConcurrentFrame

\* lines 654-666: a reply with data.  The chunk is written through the
\* handle, to the disk at once or to the handle's buffer
CRecvData(s) ==
    /\ sess[s].pc = "wait"
    /\ \E chunk \in {Serve(gd.master, sess[s].loc)}, flush \in BOOLEAN :
         /\ chunk # <<>>
         /\ files' = IF flush
                     THEN Flushed(files, [sess[s] EXCEPT !.buf = @ \o chunk])
                     ELSE files
         /\ sess' = [sess EXCEPT
                       ![s].pc = "send",
                       ![s].off = IF flush THEN HandleTell(sess[s])
                                                  + Len(chunk)
                                  ELSE @,
                       ![s].buf = IF flush THEN <<>> ELSE @ \o chunk]
    /\ ConcurrentFrame

\* lines 633-653 and 667-669: a reply without data.  When the master prompts
\* a verification and tries are left, dest is read from the disk as it is
\* then, whoever wrote it, and a digest that differs sends the call round
\* the loop again; otherwise the loop ends, the handle is closed and dest
\* returned
CRecv(s) ==
    /\ sess[s].pc = "wait"
    /\ Serve(gd.master, sess[s].loc) = <<>>
    /\ \E r \in EndReplies :
       \E again \in {/\ VerifyWanted(r, sess[s].d_tries)
                     /\ Digest(HashTypeOf(r), files[DestFile]) # r.hsum} :
         /\ files' = IF again THEN files ELSE Flushed(files, sess[s])
         /\ sess' = [sess EXCEPT
                       ![s].pc = IF again THEN "send" ELSE "done",
                       ![s].d_tries = IF VerifyWanted(r, sess[s].d_tries)
                                      THEN @ + 1 ELSE @,
                       ![s].open = again,
                       ![s].off = IF again THEN @ ELSE HandleTell(sess[s]),
                       ![s].buf = IF again THEN @ ELSE <<>>,
                       ![s].result = IF again THEN @ ELSE Ret(DestFile)]
    /\ ConcurrentFrame

\* the handle of a call that timed out is finalised when its frame is
\* released, which writes its buffer out
CFinalise(s) ==
    /\ sess[s].pc = "done"
    /\ sess[s].open
    /\ files' = Flushed(files, sess[s])
    /\ sess' = [sess EXCEPT ![s].open = FALSE,
                            ![s].off = HandleTell(sess[s]),
                            ![s].buf = <<>>]
    /\ ConcurrentFrame

CStep(s) ==
    \/ CEnter(s)
    \/ CSend(s)
    \/ CTimeout(s)
    \/ CRecvData(s)
    \/ CRecv(s)

InitConcurrent ==
    /\ pc = "idle"
    /\ dirs = {Slash, DestDir}
    /\ files \in {EmptyFs, WithFile(EmptyFs, DestFile, OldBytes)}
    /\ InitLocals
    /\ opts = NoOpts
    /\ sess = [s \in Callers |-> Caller]
    /\ \E m \in Masters : gd = [stage |-> "concurrent", master |-> m]

NextConcurrent == \E s \in Callers : CStep(s) \/ CFinalise(s)

SpecConcurrent == InitConcurrent /\ [][NextConcurrent]_vars

\* each call is a thread of its own and keeps running
SpecConcurrentFair ==
    SpecConcurrent /\ \A s \in Callers : WF_vars(CStep(s))


(***************************************************************************)
(* The claims.                                                             *)
(***************************************************************************)

\* C1: when digests keep mismatching, get_file still ends: d_tries and the
\* number of mismatches never exceed 3, the empty-data reply that follows
\* the third mismatch makes the call return its destination path without
\* raising, and a call in its request loop always comes to an end.
C1_RetryBound ==
    /\ [](d_tries <= 3 /\ mism <= 3)
    /\ [][mism = 3 /\ nempty' = nempty + 1
            => /\ pc' = "done"
               /\ dest # <<>>
               /\ result' = Ret(dest)
               /\ d_tries' = 3]_vars
    /\ (pc = "loop" ~> pc = "done")

\* a call that met three mismatches, no timeout, and returned its
\* destination after downloading data
C1_Witness ==
    /\ pc = "done"
    /\ mism = 3
    /\ nempty = 4
    /\ ~timedOut
    /\ recv # <<>>
    /\ result = Ret(dest)
    /\ dest # <<>>

\* C2: digest mismatches cause at most 2 further attempts: once the third
\* mismatch was found the call sends no further request.
C2_NoRequestAfterThirdMismatch == [][mism = 3 => nreq' = nreq]_vars

\* C3: the request that follows a digest mismatch carries loc 0.
C3_RetryFromOffsetZero ==
    [][retrying /\ nreq' = nreq + 1 => lastLoc' = 0]_vars

\* C4: once a request has timed out the call is over, it has returned the
\* empty string (not False, not an exception), and no request follows.
C4_TimeoutReturnsEmpty ==
    /\ [](timedOut => pc = "done" /\ result = Ret(<<>>))
    /\ [][timedOut => nreq' = nreq]_vars

\* a timeout in the middle of the stream, with the destination open
C4_Witness ==
    /\ timedOut
    /\ nreq >= 2
    /\ recv # <<>>
    /\ result = Ret(<<>>)

\* C5: get_file called with a salt:// path and an explicit destination
\* whose parent directory does not exist returns False, sends no request
\* and leaves the filesystem as it was when makedirs is unset; with
\* makedirs set the parent directory exists afterwards and the request
\* loop is entered with the destination open.
C5_MissingDestDir ==
    /\ [](result = RetFalse => pc = "done" /\ nreq = 0)
    /\ [][/\ pc = "idle"
          /\ pc' # "idle"
          /\ destArg' # <<>>
          /\ CheckProto(path').ok
          /\ ~IsDirIn(dirs, Dirname(destArg'))
          /\ ~IsFileIn(files, Dirname(destArg'))
          => IF makedirs'
             THEN /\ IsDirIn(dirs', Dirname(destArg'))
                  /\ pc' = "loop"
                  /\ fn_' = Handle(destArg')
                  /\ IsFileIn(files', destArg')
             ELSE /\ result' = RetFalse
                  /\ pc' = "done"
                  /\ nreq' = 0
                  /\ dirs' = dirs
                  /\ files' = files]_vars

\* get_file returned False for a destination whose directory is missing
C5_Witness ==
    /\ result = RetFalse
    /\ destArg = DestFile
    /\ ~makedirs
    /\ ~IsDir(DestDir)
    /\ ~IsFile(DestFile)

\* C6: when get_file has returned, no handle it opened on the destination
\* is still open.
C6_HandlesClosedOnReturn ==
    pc = "done" /\ result.tag \in {"ret", "False"} => nopen = 0

\* C7: after a get_file call that returned a destination with no timeout
\* and no digest mismatch, the destination file holds exactly the chunks
\* received, in reply order, each one decompressed when it was sent
\* compressed.
C7_ContentIsChunksInOrder ==
    /\ pc = "done"
    /\ op = "get_file"
    /\ result.tag = "ret"
    /\ result.val # <<>>
    /\ ~timedOut
    /\ mism = 0
    => IsFile(result.val) /\ files[result.val] = recv

\* two chunks, the second of them sent compressed, written in order
C7_Witness ==
    /\ pc = "done"
    /\ result.tag = "ret"
    /\ result.val # <<>>
    /\ mism = 0
    /\ recv = <<1, 2>>
    /\ nreq = 3
    /\ files[result.val] = <<1, 2>>

\* C8: a call without explicit destination whose first reply has no data
\* and a dest, and that ends there, has created a zero-length file at
\* cachedir/files/<env>/<dest>, returned that path and left no handle open.
C8_ZeroByteFile ==
    /\ pc = "done"
    /\ zeroByte
    /\ nreq = 1
    /\ ~timedOut
    => /\ result = Ret(CacheLocDest(Rel, Env))
       /\ IsFile(CacheLocDest(Rel, Env))
       /\ files[CacheLocDest(Rel, Env)] = <<>>
       /\ nopen = 0

\* C9: _check_proto raises for a path that does not start with salt:// and
\* otherwise returns what follows the first salt://, so that salt:// plus
\* the returned value is the path again.
C9_CheckProto ==
    pc = "done" /\ op = "_check_proto"
    => IF StartsWith(path, SaltScheme)
       THEN result.tag = "ret" /\ SaltScheme \o result.val = path
       ELSE result = Raise("MinionError")

\* a path with two schemes keeps the second one
C9_Witness ==
    /\ pc = "done"
    /\ op = "_check_proto"
    /\ path = SaltScheme \o SaltScheme \o <<"x">>
    /\ result = Ret(SaltScheme \o <<"x">>)

\* C10: is_cached('salt://' + r, e) returns '' when nothing is cached for r,
\* and after a cache_file call for the same path that returned d it
\* returns d.
C10_IsCachedAfterCacheFile ==
    /\ probed /\ StartsWith(probePath, SaltScheme)
       /\ ~Exists(CacheLocDest(CheckProto(probePath).val, Env))
       => probeRet = <<>>
    /\ probed /\ pc = "done" /\ op = "cache_file" /\ probePath = path
       /\ result.tag = "ret" /\ result.val # <<>>
       => probeRet = result.val

\* C11: when a path is present in the localfiles cache and in the files
\* cache of the environment, is_cached returns the localfiles path.
C11_LocalFilesFirst ==
    /\ probed
    /\ ~StartsWith(probePath, Slash)
    /\ Exists(PathJoin(LocalRoot, probePath))
    /\ Exists(PathJoin(EnvRoot, probePath))
    => probeRet = PathJoin(LocalRoot, probePath)

\* the prefix P a call stands for: the path without the scheme and without
\* its trailing slashes (get_dir) or without the one slash that ends it
\* (cache_dir)
C12_Prefix ==
    IF op = "get_dir" THEN RStripSlash(SubSeq(path, SchemeLen + 1, Len(path)))
    ELSE IF path[Len(path)] = "/" /\ Len(path) > SchemeLen
    THEN SubSeq(path, SchemeLen + 1, Len(path) - 1)
    ELSE SubSeq(path, SchemeLen + 1, Len(path))

\* C12: get_dir and cache_dir pick a listed file exactly when its name
\* starts with P + '/', P being the requested directory: the picked files
\* are the listing, in order, without the names that do not start so.
C12_PrefixMatching ==
    pc = "done" /\ op \in {"get_dir", "cache_dir"} /\ result.tag = "none"
    => /\ Len(gd.sel) <= Len(gd.listing)
       /\ \A f \in FileNames :
            /\ Cardinality({i \in 1..Len(gd.sel) : gd.sel[i] = f})
                 = IF StartsWith(f, C12_Prefix \o <<"/">>)
                   THEN Cardinality({i \in 1..Len(gd.listing) :
                                        gd.listing[i] = f})
                   ELSE 0

\* asked for f, get_dir took f/b and left fb/ (and cache_dir likewise)
C12_Witness ==
    /\ pc = "done"
    /\ path = SaltScheme \o <<"f">>
    /\ gd.stage = "selected"
    /\ gd.listing = << <<"f", "b", "/">>, <<"f", "/", "b">> >>
    /\ gd.sel = << <<"f", "/", "b">> >>

\* C13: LocalClient.get_file returns the path in the first root, in the
\* order file_roots declares them, that holds the relative path as a
\* regular file, and '' when no root does.
C13_FirstRootWins ==
    pc = "done" /\ op = "local.get_file" /\ CheckProto(path).ok
       /\ Env \in DOMAIN opts.file_roots
    => LET rs == opts.file_roots[Env]
           rel == Unescape(SubSeq(path, SchemeLen + 1, Len(path)))
           hits == {i \in 1..Len(rs) : (rs[i] \o <<"/">> \o rel) \in DOMAIN files}
       IN  IF hits = {} THEN result = Ret(<<>>)
           ELSE \E i \in hits :
                  /\ \A j \in hits : i <= j
                  /\ result = Ret(rs[i] \o <<"/">> \o rel)

\* roots declared b, a, both holding x: the file of root b is returned
C13_Witness ==
    /\ pc = "done"
    /\ op = "local.get_file"
    /\ Env \in DOMAIN opts.file_roots
    /\ opts.file_roots[Env] = <<RootB, RootA>>
    /\ IsFile(<<"/", "a", "/", "x">>)
    /\ IsFile(<<"/", "b", "/", "x">>)
    /\ result = Ret(<<"/", "b", "/", "x">>)

\* C14: a LocalClient.get_file call leaves the filesystem as it was
\* whatever dest and makedirs are; for a salt:// path it raises nothing and
\* returns either '' (environment not configured, or no root holds the
\* path) or the path of a regular file below one of the roots.
C14_LocalGetFileNoCopy ==
    [][pc = "idle" /\ pc' = "done" /\ op' = "local.get_file"
       => /\ dirs' = dirs
          /\ files' = files
          /\ CheckProto(path').ok
             => /\ result'.tag = "ret"
                /\ \/ result'.val = <<>>
                   \/ /\ Env \in DOMAIN opts.file_roots
                      /\ result'.val \in DOMAIN files
                      /\ \E i \in 1..Len(opts.file_roots[Env]) :
                           StartsWith(result'.val,
                                      opts.file_roots[Env][i] \o <<"/">>)
                /\ result'.val = <<>>
                   <=> \/ Env \notin DOMAIN opts.file_roots
                       \/ \A i \in 1..Len(opts.file_roots[Env]) :
                            (opts.file_roots[Env][i] \o <<"/">>
                               \o Unescape(SubSeq(path', SchemeLen + 1,
                                                  Len(path'))))
                            \notin DOMAIN files]_vars

\* called with a dest and makedirs set, the call returned the file in the
\* root and made neither the destination nor its directory
C14_Witness ==
    /\ pc = "done"
    /\ op = "local.get_file"
    /\ destArg = DestFile
    /\ makedirs
    /\ result = Ret(<<"/", "a", "/", "x">>)
    /\ ~IsFile(DestFile)
    /\ ~IsDir(DestDir)

\* C15 as stated: hash_file of a path without the scheme that is no file on
\* the local filesystem ends with an error.
C15_AdHocMissingRaises ==
    pc = "done" /\ op \in {"local.hash_file", "remote.hash_file"}
       /\ ~StartsWith(path, SaltScheme) /\ path \notin DOMAIN files
    => result.tag \notin {"ret", "none"}

\* C15 amended: hash_file of a path without the scheme returns an empty
\* record, raising nothing, when the path is no file on the local
\* filesystem, and the md5 digest record of its content when it is one.
C15_AdHocHash ==
    pc = "done" /\ op \in {"local.hash_file", "remote.hash_file"}
       /\ ~StartsWith(path, SaltScheme)
    => IF path \in DOMAIN files
       THEN result = Ret([hsum |-> Digest("md5", files[path]),
                          hash_type |-> "md5"])
       ELSE result = Ret(EmptyDict)

\* RemoteClient.hash_file of the missing /q gave the empty record
C15_Witness ==
    /\ pc = "done"
    /\ op = "remote.hash_file"
    /\ path = <<"/", "q">>
    /\ ~Exists(path)
    /\ nreq = 0
    /\ result = Ret(EmptyDict)

\* C16: with the environment missing from file_roots, file_list, dir_list
\* and file_list_emptydirs return an empty list, get_file of a salt:// path
\* returns '' and hash_file of a salt:// path an empty record.
C16_UnknownEnvironment ==
    pc = "done" /\ Env \notin DOMAIN opts.file_roots
    => /\ op \in {"local.file_list", "local.dir_list",
                  "local.file_list_emptydirs"}
          => result = Ret(ListOf(EmptyBag))
       /\ op = "local.get_file" /\ StartsWith(path, SaltScheme)
          => result = Ret(<<>>)
       /\ op = "local.hash_file" /\ StartsWith(path, SaltScheme)
          => result = Ret(EmptyDict)

\* only dev is configured and base was listed
C16_Witness ==
    /\ pc = "done"
    /\ op = "local.file_list"
    /\ DOMAIN opts.file_roots = {Dev}
    /\ IsFile(<<"/", "a", "/", "x">>)
    /\ result = Ret(ListOf(EmptyBag))

\* C18: file_list_emptydirs lists a directory of a root, by its path
\* relative to the root, once for every root in which that directory has no
\* file and no subdirectory, and never for a directory that holds a file or
\* a subdirectory.
C18_EmptyDirs ==
    pc = "done" /\ op = "local.file_list_emptydirs"
       /\ Env \in DOMAIN opts.file_roots
    => LET rs == opts.file_roots[Env]
           Below(r) == {d \in dirs : d = r \/ StartsWith(d, r \o <<"/">>)}
           Name(d, r) == IF d = r THEN <<".">>
                         ELSE SubSeq(d, Len(r) + 2, Len(d))
           Bare(d) == \A q \in (dirs \cup DOMAIN files) \ {d} :
                          ~(StartsWith(q, d \o <<"/">>))
           names == UNION {{Name(d, rs[i]) : d \in Below(rs[i])} :
                           i \in 1..Len(rs)}
       IN  /\ \A n \in names :
                CopiesIn(n, result.val.list)
                  = Cardinality({i \in 1..Len(rs) :
                        \E d \in Below(rs[i]) :
                            Name(d, rs[i]) = n /\ Bare(d)})
           /\ BagToSet(result.val.list) \subseteq names

\* a/e is listed, a/s/t is listed, a/s (which holds only t) is not
C18_Witness ==
    /\ pc = "done"
    /\ op = "local.file_list_emptydirs"
    /\ result.tag = "ret"
    /\ IsDir(<<"/", "a", "/", "s", "/", "t">>)
    /\ BagIn(<<"e">>, result.val.list)
    /\ BagIn(<<"s", "/", "t">>, result.val.list)
    /\ ~BagIn(<<"s">>, result.val.list)

\* C17: a RemoteClient listing call sends one request and no more; when
\* the request times out the call returns the string '' and otherwise the
\* list it was sent, never raising; a get_dir or cache_dir call whose
\* file_list timed out makes no get_file call and writes no file.
C17_ListingTimeout ==
    /\ [](op \in ListOps
          => /\ nreq = 1
             /\ pc = "done"
                => /\ result.tag = "ret"
                   /\ timedOut => result.val = <<>>
                   /\ ~timedOut => /\ result.val # <<>>
                                   /\ result.val.list \in ListReplies)
    /\ [][gd.stage # "none" /\ gd.listTimedOut
          => /\ op' \in {"get_dir", "cache_dir"}
             /\ gd'.listTimedOut
             /\ gd'.calls = <<>>
             /\ files' = files
             /\ nreq' <= 2]_vars

\* file_list timed out, the listing of empty directories did not: get_dir
\* fetched no file and made the one empty directory
C17_Witness ==
    /\ op = "get_dir"
    /\ gd.stage = "returned"
    /\ gd.listTimedOut
    /\ gd.calls = <<>>
    /\ nreq = 2
    /\ IsDir(<<"/", "d", "/", "f", "/", "e">>)

\* C19: using _cache_loc twice in sequence with the same (path, env) yields
\* the same destination both times and succeeds both times, whether or not
\* the destination's directory existed before the first use; the second use
\* changes nothing on disk.  (OSError is what os.remove and os.makedirs of
\* the block raise; an error of the body is not one of _cache_loc.)
C19_CacheLocTwice ==
    /\ [](sess[1].err # "OSError")
    /\ [](sess[1].prev # <<>> /\ sess[1].pc \in {"yield", "after"}
          => sess[1].dest = sess[1].prev)
    /\ [][sess[1].prev # <<>> => dirs' = dirs /\ files' = files]_vars

\* C20: a session whose os.makedirs finds the directory already there,
\* made meanwhile by another session, goes on to its yield: losing the
\* race raises nothing.
C20_RaceTolerated ==
    [][\A s \in DOMAIN sess :
          /\ sess[s].pc = "makedirs"
          /\ sess'[s].pc # "makedirs"
          /\ IsDir(DestDirOf(s))
          => sess'[s].pc = "yield"]_vars

\* C21: every request of get_file carries as loc the number of bytes the
\* call has written to its destination so far, whether they have reached
\* the disk or not, and 0 while no destination file has been opened.
C21_LocIsBytesWritten ==
    [][op = "get_file" /\ nreq' = nreq + 1
       => /\ lastLoc' = Len(recv)
          /\ ~fn_.open => lastLoc' = 0]_vars

\* a second chunk is asked for at offset 1 while the first one is still in
\* the buffer of the handle
C21_Witness ==
    /\ op = "get_file"
    /\ nreq = 2
    /\ lastLoc = 1
    /\ destArg = <<>>
    /\ fn_.open
    /\ Len(fn_.buf) = 2

\* C22: when an empty reply prompts a verification, get_file finds a
\* mismatch exactly when the digest of all the bytes it has written so
\* far, those still in the open handle included, made with the reply's
\* hash_type (md5 without one), differs from the reply's hsum.
C22_DigestOverAllWritten ==
    [][/\ op = "get_file"
       /\ nempty' = nempty + 1
       /\ gd'.reply.hsum # 0 - 1
       /\ d_tries < DTriesLimit
       /\ fn_.open
       => (mism' = mism + 1
           <=> Digest(HashTypeOf(gd'.reply), recv) # gd'.reply.hsum)]_vars

\* the bytes the file at p holds once what is in the handle's buffer is
\* written out
OnceFlushed(p) == CloseFiles(files, fn_)[p]

\* C23: when a request of get_file has timed out after chunks were written,
\* the call has neither deleted nor truncated the destination file: the step
\* that times out leaves every file as long as it was or longer, the file
\* exists, and it holds the bytes of those chunks, those in the buffer of
\* the handle the call did not close being written as the handle is
\* finalised.
C23_PartialFileKept ==
    /\ [](pc = "done" /\ op = "get_file" /\ timedOut /\ recv # <<>>
          => /\ IsFile(dest)
             /\ OnceFlushed(dest) = recv
             /\ ~fn_.open => files[dest] = recv)
    /\ [][timedOut' /\ ~timedOut
          => /\ dirs' = dirs
             /\ DOMAIN files' = DOMAIN files
             /\ \A q \in DOMAIN files :
                  SubSeq(files'[q], 1, Len(files[q])) = files[q]]_vars

\* two chunks were written, the request for the third timed out, and the
\* file holds the two chunks
C23_Witness ==
    /\ pc = "done"
    /\ op = "get_file"
    /\ timedOut
    /\ nreq = 3
    /\ ~fn_.open
    /\ Len(recv) >= 2
    /\ files[dest] = recv

\* C24: a chunk that get_file receives is decompressed before it is
\* appended exactly when the caller asked for compression and the reply is
\* flagged gzip; otherwise the bytes of the reply are appended as they are.
C24_DecompressWhenBoth ==
    [][/\ op = "get_file"
       /\ nreq' = nreq + 1
       /\ pc' = "loop"
       /\ gd'.stage = "reply"
       /\ gd'.reply.data # <<>>
       => files'[fn_'.path] \o fn_'.buf
            = (IF fn_.open THEN files[fn_.path] \o fn_.buf ELSE <<>>)
              \o (IF gzip /\ gd'.reply.gzip
                  THEN Uncompress(gd'.reply.data).val
                  ELSE gd'.reply.data)]_vars

\* C25: a get_file call given a destination outside cachedir/files writes
\* to that destination only: whatever dest the replies carry, the local
\* dest stays the one supplied, a returned path is the supplied one, and no
\* directory or file under cachedir/files is made, removed or changed.
C25_ExplicitDestOnly ==
    /\ [](op = "get_file" /\ destArg # <<>>
          => /\ dest = destArg
             /\ fn_.open => fn_.path = destArg
             /\ result.tag = "ret" /\ ~timedOut => result.val = destArg)
    /\ [][op' = "get_file" /\ destArg' # <<>>
          => /\ \A q \in (dirs \cup dirs') \cup
                          (DOMAIN files \cup DOMAIN files') :
                   IsUnder(q, FilesRoot)
                   => /\ q \in dirs <=> q \in dirs'
                      /\ q \in DOMAIN files <=> q \in DOMAIN files'
                      /\ q \in DOMAIN files => files'[q] = files[q]
             /\ umask' = umask]_vars

\* a call with a destination has written two chunks to it and returned
\* it, and cachedir/files/base is still empty
C25_Witness ==
    /\ op = "get_file"
    /\ destArg = DestFile
    /\ pc = "done"
    /\ result = Ret(DestFile)
    /\ path = SaltX
    /\ nreq = 3
    /\ files[DestFile] = <<1, 2>>
    /\ ~Exists(CacheX)
    /\ IsDir(EnvRoot)

\* C26: a get_file call without destination whose first reply names a
\* cache path that a directory occupies, the directory above it being
\* there, has a regular file at that path after the reply, whether the
\* reply carries data or none.
C26_DirectoryReplaced ==
    [][/\ op = "get_file"
       /\ destArg = <<>>
       /\ nreq = 0
       /\ nreq' = 1
       /\ ~timedOut'
       /\ IsDir(CacheLocDest(Rel, Env))
       /\ dest' = CacheLocDest(Rel, Env)
       => IsFileIn(files', CacheLocDest(Rel, Env))]_vars

\* C27: when _cache_loc finds a regular file where the directory of the
\* destination has to be, it deletes the file and makes the directory, so
\* that at the yield the directory of the destination is there.
C27_DirectoryWinsOverFile ==
    /\ [][sess[1].pc = "isfile" /\ IsFile(DestDirOf(1))
          => sess'[1].pc = "remove"]_vars
    /\ [][sess[1].pc = "remove"
          => /\ sess'[1].pc = "makedirs"
             /\ ~IsFileIn(files', DestDirOf(1))]_vars
    /\ [][sess[1].pc = "makedirs" /\ sess[1].removed
          => /\ sess'[1].pc = "yield"
             /\ IsDirIn(dirs', DestDirOf(1))]_vars
    /\ [](sess[1].removed /\ sess[1].pc \in {"yield", "after"}
          => /\ IsDir(DestDirOf(1))
             /\ sess[1].dest = CacheLocDest(sess[1].path, Env))

\* the block for a/x is at its yield after it removed the regular file
\* cachedir/files/base/a and made the directory
C27_Witness ==
    /\ sess[1].pc = "yield"
    /\ sess[1].removed
    /\ sess[1].made
    /\ sess[1].uses = 1
    /\ sess[1].path = <<"a", "/", "x">>
    /\ IsDir(CachePathA)
    /\ ~IsFile(CachePathA)

\* the last segment of a requested directory, and a listed name from the
\* start of that segment on
LastSegment(dpath) ==
    CHOOSE t \in {SubSeq(dpath, i, Len(dpath)) : i \in 1..(Len(dpath) + 1)} :
        /\ \A j \in 1..Len(t) : t[j] # "/"
        /\ Len(t) = Len(dpath) \/ dpath[Len(dpath) - Len(t)] = "/"
FromLastSegment(dpath, fn) ==
    SubSeq(fn, Len(dpath) - Len(LastSegment(dpath)) + 1, Len(fn))
Requested(arg) == RStripSlash(SubSeq(arg, SchemeLen + 1, Len(arg)))

\* C28: every get_file call that get_dir makes for a listed file f has as
\* destination dest, a '/' and f from the last segment of the requested
\* path on: the directories before that segment are cut off and the
\* segment itself is kept.
C28_TargetKeepsLastSegment ==
    op = "get_dir" /\ gd.stage \in {"fetching", "emptydirs", "returned"}
    => \A i \in DOMAIN gd.calls :
         \E fn \in {SubSeq(gd.calls[i].path, SchemeLen + 1,
                           Len(gd.calls[i].path))} :
         \E m \in {FromLastSegment(Requested(gd.arg), fn)} :
           /\ StartsWith(gd.calls[i].path, SaltScheme)
           /\ StartsWith(fn, Requested(gd.arg) \o Slash)
           /\ StartsWith(m, LastSegment(Requested(gd.arg)) \o Slash)
           /\ gd.calls[i].dest = gd.dest \o Slash \o m

\* get_dir('salt://b/f', '/d') has fetched b/f/e to /d/f/e
C28_Witness ==
    /\ op = "get_dir"
    /\ gd.stage = "returned"
    /\ gd.arg = SaltScheme \o <<"b", "/", "f">>
    /\ Len(gd.calls) = 1
    /\ gd.calls[1].path = SaltScheme \o <<"b", "/", "f", "/", "e">>
    /\ gd.calls[1].dest = <<"/", "d", "/", "f", "/", "e">>
    /\ IsFile(<<"/", "d", "/", "f", "/", "e">>)

\* the listed empty directories that lie below the requested directory,
\* and the directory get_dir is to make for one of them
BelowRequested(arg, list) ==
    {i \in DOMAIN list : StartsWith(list[i], Requested(arg) \o Slash)}
DirFor(d, arg, fn) == d \o Slash \o FromLastSegment(Requested(arg), fn)

\* C29: when get_dir returns, every listed empty directory that is the
\* requested path followed by '/' and more is a directory under dest and is
\* in the result, one entry for each; handling the listing fetches no
\* file, and no other directory is made nor returned for it.
C29_EmptyDirsReplicated ==
    [][/\ op = "get_dir"
       /\ gd.stage = "emptydirs"
       /\ gd'.stage = "returned"
       => /\ \A i \in BelowRequested(gd.arg, gd'.emptyList) :
               /\ IsDirIn(dirs', DirFor(gd.dest, gd.arg, gd'.emptyList[i]))
               /\ \E k \in DOMAIN gd'.ret :
                    gd'.ret[k] = Ret(DirFor(gd.dest, gd.arg,
                                            gd'.emptyList[i]))
          /\ Len(gd'.ret) = Len(gd.ret)
                              + Cardinality(BelowRequested(gd.arg,
                                                           gd'.emptyList))
          /\ \A q \in dirs' \ dirs :
               \E i \in BelowRequested(gd.arg, gd'.emptyList) :
                 q \in PrefixDirs(DirFor(gd.dest, gd.arg, gd'.emptyList[i]))
          /\ gd'.calls = gd.calls
          /\ nreq' = nreq
          /\ files' = files
          /\ result'.tag = "ret"
          /\ \A k \in DOMAIN gd'.ret : result'.val.list[gd'.ret[k]] >= 1]_vars

\* get_dir('salt://f', '/d') was given the empty directories fb and f/b:
\* /d/f/b was made and returned, /d/fb was not
C29_Witness ==
    /\ op = "get_dir"
    /\ gd.stage = "returned"
    /\ gd.arg = SaltScheme \o <<"f">>
    /\ gd.emptyList = << <<"f", "b">>, <<"f", "/", "b">> >>
    /\ gd.calls = <<>>
    /\ gd.ret = << Ret(<<"/", "d", "/", "f", "/", "b">>) >>
    /\ IsDir(<<"/", "d", "/", "f", "/", "b">>)
    /\ ~Exists(<<"/", "d", "/", "f", "b">>)

\* C30: file_local_list(env) returns no file that is cached for another
\* environment, that is, none below cachedir/files/<other>.
C30_NoOtherEnvironment ==
    pc = "done" /\ op = "file_local_list"
    => \A q \in BagToSet(result.val.list) :
         \A other \in {Env, Dev} \ {path} :
           ~IsUnder(q, PathJoin(FilesRoot, other))

\* C31: the URL that get_url opens for a URL with credentials, whatever its
\* scheme, is that URL without them: its netloc is the host alone.
C31_CredentialsStripped ==
    gd.stage = "url"
    => \A i \in DOMAIN gd.calls :
         HasUsername(gd.calls[i].url)
         => /\ ~Has(gd.calls[i].opened.netloc, "@")
            /\ gd.calls[i].opened.netloc = <<"h">>

\* C32: a get_url call for a URL without credentials is not made through
\* an opener that holds the credentials of an earlier call.
C32_OpenerOneShot ==
    gd.stage = "url"
    => \A i \in DOMAIN gd.calls :
         ~HasUsername(gd.calls[i].url) => ~gd.calls[i].via.creds

\* what get_template was asked to produce, and whether it is in place
TemplateTarget == UrlTarget(gd.url, gd.dest)
TemplateDone == gd.stage = "template" /\ gd.phase = "finished"
TemplateMoved ==
    IsFile(TemplateTarget) /\ files[TemplateTarget] = RenderedBytes
TemplateFailed ==
    \/ gd.sfn.tag # "ret"
    \/ gd.sfn.val = <<>>
    \/ gd.template \notin TemplateRegistry
    \/ ~gd.rendered

\* C33 as stated: get_template returns '' and moves nothing when the source
\* cannot be cached, the engine is not registered or rendering fails; it
\* removes the rendered output and returns '' when the destination directory
\* is missing and makedirs is unset; otherwise it moves the rendered output
\* to dest and returns dest.
C33_TemplateOutcome ==
    TemplateDone
    => IF TemplateFailed
       THEN result = Ret(<<>>) /\ ~TemplateMoved
       ELSE IF ~gd.makedirs /\ ~IsDir(Dirname(TemplateTarget))
       THEN result = Ret(<<>>) /\ ~IsFile(TmpOut) /\ ~TemplateMoved
       ELSE result = Ret(TemplateTarget) /\ TemplateMoved /\ ~IsFile(TmpOut)

\* where shutil.move puts the output
TemplateRealDst == RealDst(dirs, TmpOut, TemplateTarget)

\* C33, amended: as stated, except that an error raised while the source is
\* cached (by get_url for a URL that cannot be read, by get_file) or while
\* the destination directory is created (OSError) leaves get_template as
\* that error, with nothing moved to dest; and that a dest which is a
\* directory takes the output under the output's own name, get_template
\* still returning dest, or raises shutil.Error when that name is taken.
C33_TemplateOutcomeOrError ==
    /\ [](TemplateDone
          => IF gd.sfn.tag # "ret"
             THEN result = gd.sfn /\ ~TemplateMoved /\ ~IsFile(TmpOut)
             ELSE TemplateFailed
                  => result = Ret(<<>>) /\ ~TemplateMoved /\ ~IsFile(TmpOut))
    /\ [][gd.stage = "template" /\ gd.phase = "rendered"
          /\ gd'.phase = "finished"
          => IF ~gd.makedirs /\ ~IsDir(Dirname(TemplateTarget))
             THEN /\ result' = Ret(<<>>)
                  /\ DOMAIN files' = DOMAIN files \ {TmpOut}
                  /\ \A q \in DOMAIN files' : files'[q] = files[q]
                  /\ dirs' = dirs
             ELSE IF /\ ~IsDir(Dirname(TemplateTarget))
                     /\ \E q \in PrefixDirs(Dirname(TemplateTarget)) :
                          IsFile(q)
             THEN result' = Raise("OSError") /\ files' = files /\ dirs' = dirs
             ELSE IF IsDir(TemplateTarget) /\ Exists(TemplateRealDst)
             THEN result' = Raise("Error") /\ files' = files
             ELSE /\ result' = Ret(TemplateTarget)
                  /\ DOMAIN files'
                       = (DOMAIN files \ {TmpOut}) \cup {TemplateRealDst}
                  /\ files'[TemplateRealDst] = RenderedBytes
                  /\ \A q \in DOMAIN files' \ {TemplateRealDst} :
                       files'[q] = files[q]
                  /\ Dirname(TemplateTarget) \in dirs']_vars

\* the rendered output was discarded because dest has no directory
C33_Witness ==
    /\ TemplateDone
    /\ ~TemplateFailed
    /\ gd.dest = DestFile
    /\ ~gd.makedirs
    /\ ~IsDir(DestDir)
    /\ result = Ret(<<>>)

\* C36: when the first reply of the master has empty data and an empty dest
\* (the file is not served), get_file returns an empty result and no file is
\* left at the destination the caller supplied.
C36_NotServedLeavesNothing ==
    /\ gd.stage = "reply"
    /\ pc = "done"
    /\ nreq = 1
    /\ gd.reply.data = <<>>
    /\ gd.reply.dest = <<>>
    /\ gd.reply.hsum = 0 - 1
    => /\ result = Ret(<<>>)
       /\ destArg # <<>> => ~IsFile(destArg)

\* C35: whenever no _cache_loc block is active (every session is outside
\* its block, having left it normally or by an exception), the process
\* umask is the one that was in force before the first block was entered.
C35_UmaskRestored ==
    (DOMAIN sess # {} /\ \A s \in DOMAIN sess : sess[s].pc \in {"out", "raised"})
    => umask = UmaskDefault

\* the calls that change the system
Mutating ==
    {"mount.mount", "mount.swapon", "pecl.install", "pecl.uninstall",
     "tomcat.start", "tomcat.undeploy", "tomcat.deploy_war"}
CallsOf(fn) == {i \in DOMAIN gd.calls : gd.calls[i].fn = fn}
StateDone(f) == gd.stage = "state" /\ pc = "done" /\ op = f

\* C37: with __opts__['test'] set, mount.mounted, mount.swap,
\* pecl.installed, pecl.removed and tomcat.war_deployed call no mutating
\* function, and mount.set_fstab only with test=True; the system is left as
\* it was.
C37_TestModeMutatesNothing ==
    gd.stage = "state" /\ gd.test
    => /\ \A i \in DOMAIN gd.calls :
            /\ gd.calls[i].fn \notin Mutating
            /\ gd.calls[i].fn = "mount.set_fstab"
               => gd.calls[i].arg = "test=True"
       /\ gd.sys = gd.was

\* mount.mounted looked at the fstab in test mode
C37_Witness ==
    /\ StateDone("mount.mounted")
    /\ gd.test
    /\ CallsOf("mount.set_fstab") # {}
    /\ result.val.result = "None"

\* C38: outside test mode, mount.mounted returns result True only if the
\* mount point is among the active mounts when it returns; when the mount
\* attempt leaves the target unmounted the result is False.
C38_MountedMeansActive ==
    StateDone("mount.mounted") /\ ~gd.test
    => /\ result.val.result = "True" => gd.sys.active
       /\ CallsOf("mount.mount") # {} /\ ~gd.sys.active
          => result.val.result = "False"

\* C39: in tomcat.war_deployed outside test mode, when a different version
\* is deployed tomcat.undeploy is called before tomcat.deploy_war, and when
\* undeploy reports FAIL the result is False and deploy_war is not called;
\* when the same version is deployed and running there is no start, undeploy
\* or deploy call and changes is empty.
C39_UndeployBeforeDeploy ==
    gd.stage = "state" /\ op = "tomcat.war_deployed" /\ ~gd.test
    => /\ gd.was.webapp = "other"
          => /\ \A j \in CallsOf("tomcat.deploy_war") :
                  \E i \in CallsOf("tomcat.undeploy") : i < j
             /\ pc \in {"deploy", "done"} => CallsOf("tomcat.undeploy") # {}
             /\ (\E i \in CallsOf("tomcat.undeploy") :
                    gd.calls[i].arg = "FAIL")
                => /\ pc = "done"
                   /\ result.val.result = "False"
                   /\ CallsOf("tomcat.deploy_war") = {}
       /\ gd.was.webapp = "running"
          => /\ \A i \in DOMAIN gd.calls : gd.calls[i].fn \notin Mutating
             /\ pc = "done"
             /\ result.val.changes = {}

\* another version was undeployed, the context path is empty and the call
\* waits for tomcat.deploy_war
C39_Witness ==
    /\ gd.stage = "state"
    /\ op = "tomcat.war_deployed"
    /\ ~gd.test
    /\ pc = "deploy"
    /\ gd.was.webapp = "other"
    /\ gd.sys.webapp = "absent"
    /\ CallsOf("tomcat.undeploy") # {}
    /\ CallsOf("tomcat.deploy_war") = {}

\* the offsets a call asks for when it fetches the whole of the master's file
FullSequence(master) ==
    [i \in 1..((Len(master) + MaxChunk - 1) \div MaxChunk + 1)
       |-> IF (i - 1) * MaxChunk < Len(master) THEN (i - 1) * MaxChunk
           ELSE Len(master)]

\* C34 as stated: two concurrent get_file calls for the same path and
\* destination are not serialised: a call that has not returned can always
\* take its next step, whatever the other call is doing; each call sends its
\* own complete sequence of requests, offset after offset, and writes the
\* destination; both calls return.
C34_NotSerialised ==
    /\ [](gd.stage = "concurrent"
          => \A s \in Callers :
               /\ sess[s].pc # "done" => ENABLED CStep(s)
               /\ sess[s].pc = "done"
                  => /\ sess[s].sent = FullSequence(gd.master)
                     /\ sess[s].off = Len(gd.master)
                     /\ sess[s].result = Ret(DestFile)
                     /\ IsFile(DestFile))
    /\ <>(\A s \in Callers : sess[s].pc = "done")

\* the requests of caller s so far: the offsets of the full sequence in
\* order, then requests at the end of the file, one for each digest that
\* differed
OwnSequence(s) ==
    /\ \A i \in 1..Len(sess[s].sent) :
         sess[s].sent[i] = IF i <= Len(FullSequence(gd.master))
                           THEN FullSequence(gd.master)[i]
                           ELSE Len(gd.master)
    /\ Len(sess[s].sent) <= Len(FullSequence(gd.master)) + sess[s].d_tries
    /\ sess[s].d_tries <= DTriesLimit

\* C34, amended: the two calls are not serialised: a call that has not
\* returned can always take its next step, whatever the other call is
\* doing, and both calls return.  Each call sends its own sequence of
\* requests, offset after offset as its own handle stands; the sequence is
\* cut short when a request of the call times out (the call returns '') and
\* otherwise complete, followed by at most three further requests at the
\* end of the file when the digest of dest differs, which the writes of the
\* other call can bring about; a call that did not time out has written
\* all its bytes, closed its handle and returned dest.
C34_NotSerialisedOrCut ==
    /\ [](gd.stage = "concurrent"
          => \A s \in Callers :
               /\ sess[s].pc # "done" => ENABLED CStep(s)
               /\ OwnSequence(s)
               /\ sess[s].pc # "idle" => IsFile(DestFile)
               /\ sess[s].pc = "done"
                  => IF sess[s].timedOut
                     THEN sess[s].result = Ret(<<>>)
                     ELSE /\ Len(sess[s].sent)
                               >= Len(FullSequence(gd.master))
                          /\ sess[s].off = Len(gd.master)
                          /\ ~sess[s].open
                          /\ sess[s].result = Ret(DestFile))
    /\ <>(\A s \in Callers : sess[s].pc = "done")

\* both calls ran at once and returned dest; one of them found the digest
\* of dest differing and asked again at the end of the file
C34_Witness ==
    /\ gd.stage = "concurrent"
    /\ \A s \in Callers : sess[s].pc = "done" /\ sess[s].result = Ret(DestFile)
    /\ \E s \in Callers :
         Len(sess[s].sent) > Len(FullSequence(gd.master))

====
